---- MODULE Spec2Model ----
(***************************************************************************)
(* YAG Acquisitie Tool: the company-name suppression engine of             *)
(* src/Python/src/storage.py and the send pipeline of src/Python/main.py.  *)
(*                                                                         *)
(* A Python str is a sequence of one-character strings; the empty str is   *)
(* the empty sequence.  A Python set of str is a set of such sequences.    *)
(***************************************************************************)
EXTENDS Integers, Sequences, FiniteSets, TLC

(***************************************************************************)
(* Bounds of the model.                                                    *)
(***************************************************************************)
\* longest company name enumerated exhaustively over Alphabet
MaxLen == 3
\* rows of the sheet when the program starts
MaxRows == 2
\* leads one Lusha search may add to the sheet
MaxNewLeads == 1
\* raw names in the column of an enumerated DNC source
MaxDncNames == 2

(***************************************************************************)
(* Characters.                                                             *)
(***************************************************************************)
LowerLetters ==
    { "a", "b", "c", "d", "e", "f", "g", "h", "i", "j", "k", "l", "m",
      "n", "o", "p", "q", "r", "s", "t", "u", "v", "w", "x", "y", "z" }

UpperSeq ==
    << "A", "B", "C", "D", "E", "F", "G", "H", "I", "J", "K", "L", "M",
       "N", "O", "P", "Q", "R", "S", "T", "U", "V", "W", "X", "Y", "Z" >>

LowerSeq ==
    << "a", "b", "c", "d", "e", "f", "g", "h", "i", "j", "k", "l", "m",
       "n", "o", "p", "q", "r", "s", "t", "u", "v", "w", "x", "y", "z" >>

UpperLetters == { UpperSeq[i] : i \in 1..26 }

Digits == { "0", "1", "2", "3", "4", "5", "6", "7", "8", "9" }

\* what the regex class \s and str.strip() take for whitespace
Whitespace == { " ", "\t", "\n", "\r", "\f" }

\* what the regex class \w (hence \b) takes for a word character: letters,
\* digits and the underscore
IsWordChar(c) == c \in LowerLetters \cup UpperLetters \cup Digits \cup { "_" }

\* str.lower() on one character
LowerChar(c) ==
    IF c \in UpperLetters
    THEN LowerSeq[CHOOSE i \in 1..26 : UpperSeq[i] = c]
    ELSE c

\* str.lower()
Lower(s) == [i \in 1..Len(s) |-> LowerChar(s[i])]

\* str.strip()
RECURSIVE LStrip(_)
LStrip(s) ==
    IF s # << >> /\ Head(s) \in Whitespace THEN LStrip(Tail(s)) ELSE s

RECURSIVE RStrip(_)
RStrip(s) ==
    IF s # << >> /\ s[Len(s)] \in Whitespace
    THEN RStrip(SubSeq(s, 1, Len(s) - 1))
    ELSE s

Strip(s) == RStrip(LStrip(s))

\* sub occurs in s at index i (1-based)
OccursAt(sub, s, i) ==
    /\ i + Len(sub) - 1 <= Len(s)
    /\ \A k \in 1..Len(sub) : s[i + k - 1] = sub[k]

\* the Python test `sub in s` on two str
IsSubstring(sub, s) == \E i \in 1..(Len(s) + 1) : OccursAt(sub, s, i)

\* str.split(sep) for a non-empty separator: left to right, non-overlapping
RECURSIVE SplitFrom(_, _, _, _)
SplitFrom(s, sep, start, i) ==
    IF i + Len(sep) - 1 > Len(s)
    THEN << SubSeq(s, start, Len(s)) >>
    ELSE IF OccursAt(sep, s, i)
         THEN << SubSeq(s, start, i - 1) >>
              \o SplitFrom(s, sep, i + Len(sep), i + Len(sep))
         ELSE SplitFrom(s, sep, start, i + 1)

Split(s, sep) == SplitFrom(s, sep, 1, 1)

(***************************************************************************)
(* _normalize_company: the legal-form regex                                *)
(*   \b(b\.?\s*v\.?|n\.?\s*v\.?|v\.?\s*o\.?\s*f\.?|ltd\.?|gmbh|inc\.?      *)
(*      |llc|bv|nv|vof)\b                                                  *)
(* A pattern is a sequence of elements: a letter, "?." for \.? and "*s"    *)
(* for \s*.  The alternatives are tried in the order written.              *)
(***************************************************************************)
LegalForms ==
    << << "b", "?.", "*s", "v", "?." >>,
       << "n", "?.", "*s", "v", "?." >>,
       << "v", "?.", "*s", "o", "?.", "*s", "f", "?." >>,
       << "l", "t", "d", "?." >>,
       << "g", "m", "b", "h" >>,
       << "i", "n", "c", "?." >>,
       << "l", "l", "c" >>,
       << "b", "v" >>,
       << "n", "v" >>,
       << "v", "o", "f" >> >>

\* \b before index i of s: exactly one of s[i-1], s[i] is a word character
WordBoundary(s, i) ==
    LET before == i > 1 /\ IsWordChar(s[i - 1])
        after  == i <= Len(s) /\ IsWordChar(s[i])
    IN  before # after

\* number of whitespace characters of s from index i on
RECURSIVE WsRun(_, _)
WsRun(s, i) ==
    IF i <= Len(s) /\ s[i] \in Whitespace THEN 1 + WsRun(s, i + 1) ELSE 0

\* The indexes at which pattern pat, from its element k on, can stop when it
\* starts reading s at index i, in the order the backtracking matcher tries
\* them (greedy first).
RECURSIVE MatchEnds(_, _, _, _)
RECURSIVE WsEnds(_, _, _, _, _)
WsEnds(pat, k, s, i, n) ==
    MatchEnds(pat, k, s, i + n)
    \o (IF n = 0 THEN << >> ELSE WsEnds(pat, k, s, i, n - 1))

MatchEnds(pat, k, s, i) ==
    IF k > Len(pat) THEN << i >>
    ELSE IF pat[k] = "?."
         THEN (IF i <= Len(s) /\ s[i] = "."
               THEN MatchEnds(pat, k + 1, s, i + 1)
               ELSE << >>)
              \o MatchEnds(pat, k + 1, s, i)
    ELSE IF pat[k] = "*s"
         THEN WsEnds(pat, k + 1, s, i, WsRun(s, i))
    ELSE IF i <= Len(s) /\ s[i] = pat[k]
         THEN MatchEnds(pat, k + 1, s, i + 1)
         ELSE << >>

\* the ends of pat at i that are followed by \b, in the order tried
BoundedEnds(pat, s, i) ==
    SelectSeq(MatchEnds(pat, 1, s, i), LAMBDA e : WordBoundary(s, e))

\* Where the match of the whole regex that starts at index i stops: the
\* first end of the first alternative that has one; 0 when none matches.
RECURSIVE FirstAlternative(_, _, _)
FirstAlternative(s, i, a) ==
    IF a > Len(LegalForms) THEN 0
    ELSE LET ends == BoundedEnds(LegalForms[a], s, i)
         IN  IF ends # << >> THEN ends[1] ELSE FirstAlternative(s, i, a + 1)

LegalFormAt(s, i) ==
    IF WordBoundary(s, i) THEN FirstAlternative(s, i, 1) ELSE 0

\* re.sub(legal forms, '', s): leftmost matches, scanned from index i
RECURSIVE StripLegalForms(_, _)
StripLegalForms(s, i) ==
    IF i > Len(s) THEN << >>
    ELSE LET end == LegalFormAt(s, i)
         IN  IF end # 0
             THEN StripLegalForms(s, end)
             ELSE << s[i] >> \o StripLegalForms(s, i + 1)

\* re.sub(r'[^a-z0-9\s]', ' ', s)
PunctToSpace(s) ==
    [i \in 1..Len(s) |->
        IF s[i] \in LowerLetters \cup Digits \cup Whitespace
        THEN s[i] ELSE " "]

\* re.sub(r'\s+', ' ', s)
RECURSIVE CollapseWhitespace(_)
CollapseWhitespace(s) ==
    IF s = << >> THEN << >>
    ELSE IF Head(s) \in Whitespace
         THEN << " " >> \o CollapseWhitespace(SubSeq(s, 1 + WsRun(s, 1), Len(s)))
         ELSE << Head(s) >> \o CollapseWhitespace(Tail(s))

_normalize_company(name) ==
    Strip(CollapseWhitespace(PunctToSpace(StripLegalForms(Lower(name), 1))))

(***************************************************************************)
(* _extract_variants                                                       *)
(***************************************************************************)
Separators == << << ";" >>, << "|" >>, << " ", "-", " " >>, << "," >> >>

\* shortest normalized part of a split name that is kept as a variant
MinPartLen == 3

\* the normalized parts of raw split on sep that are kept
PartVariants(raw, sep) ==
    IF IsSubstring(sep, raw)
    THEN LET parts == Split(raw, sep)
         IN  { n \in { _normalize_company(Strip(parts[k])) : k \in 1..Len(parts) } :
                 Len(n) >= MinPartLen }
    ELSE { }

\* variant of _extract_variants that leaves the whole-string normalization out
PartsOnlyVariants(raw) ==
    LET variants == UNION { PartVariants(raw, Separators[k]) :
                              k \in 1..Len(Separators) }
    IN  { v \in variants : v # << >> }

_extract_variants(raw) ==
    LET variants == { _normalize_company(raw) }
                    \cup UNION { PartVariants(raw, Separators[k]) :
                                   k \in 1..Len(Separators) }
    IN  { v \in variants : v # << >> }

(***************************************************************************)
(* is_do_not_contact                                                       *)
(***************************************************************************)
_STOPWORDS ==
    { <<"g", "r", "o", "e", "p">>,
      <<"g", "r", "o", "u", "p">>,
      <<"i", "n", "t", "e", "r">>,
      <<"g", "l", "o", "b", "a", "l">>,
      <<"s", "o", "l", "u", "t", "i", "o", "n", "s">>,
      <<"s", "e", "r", "v", "i", "c", "e", "s">>,
      <<"m", "a", "n", "a", "g", "e", "m", "e", "n", "t">>,
      <<"c", "o", "n", "s", "u", "l", "t", "i", "n", "g">>,
      <<"h", "o", "l", "d", "i", "n", "g">>,
      <<"i", "n", "t", "e", "r", "n", "a", "t", "i", "o", "n", "a", "l">>,
      <<"n", "e", "d", "e", "r", "l", "a", "n", "d">>,
      <<"n", "e", "t", "h", "e", "r", "l", "a", "n", "d", "s">>,
      <<"e", "u", "r", "o", "p", "e">>,
      <<"d", "i", "g", "i", "t", "a", "l">>,
      <<"p", "a", "r", "t", "n", "e", "r", "s">>,
      <<"i", "n", "n", "o", "v", "a", "t", "i", "o", "n", "s">>,
      <<"s", "y", "s", "t", "e", "m", "s">>,
      <<"l", "o", "g", "i", "s", "t", "i", "c", "s">>,
      <<"s", "u", "p", "p", "l", "y">>,
      <<"c", "h", "a", "i", "n">>,
      <<"m", "e", "d", "i", "a">>,
      <<"t", "e", "c", "h">> }

\* shortest registry entry the substring pass looks at
MinSubstringLen == 8

\* `not company or not company.strip()`
IsBlank(company) == company = << >> \/ Strip(company) = << >>

\* variant of ExactMatches that looks up the whole-string normalization only
WholeNameMatches(company, dnc_set) == { _normalize_company(company) } \cap dnc_set

\* the variants of the lead the first loop can return
ExactMatches(company, dnc_set) == _extract_variants(company) \cap dnc_set

\* variant of SubstringMatches without the containment test
LongEntryMatches(company, dnc_set) ==
    { dnc_entry \in dnc_set :
        /\ Len(dnc_entry) >= MinSubstringLen
        /\ dnc_entry \notin _STOPWORDS }

\* variant of SubstringMatches without the stop-word test
StopWordEntryMatches(company, dnc_set) ==
    LET norm_lead == _normalize_company(company)
    IN  { dnc_entry \in dnc_set :
            /\ Len(dnc_entry) >= MinSubstringLen
            /\ \/ IsSubstring(dnc_entry, norm_lead)
               \/ IsSubstring(norm_lead, dnc_entry) }

\* variant of SubstringMatches without the length test
ShortEntryMatches(company, dnc_set) ==
    LET norm_lead == _normalize_company(company)
    IN  { dnc_entry \in dnc_set :
            /\ dnc_entry \notin _STOPWORDS
            /\ \/ IsSubstring(dnc_entry, norm_lead)
               \/ IsSubstring(norm_lead, dnc_entry) }

\* variant of SubstringMatches that only looks for the entry inside the lead
EntryInLeadMatches(company, dnc_set) ==
    LET norm_lead == _normalize_company(company)
    IN  { dnc_entry \in dnc_set :
            /\ Len(dnc_entry) >= MinSubstringLen
            /\ dnc_entry \notin _STOPWORDS
            /\ IsSubstring(dnc_entry, norm_lead) }

\* the registry entries the second loop can return
SubstringMatches(company, dnc_set) ==
    LET norm_lead == _normalize_company(company)
    IN  { dnc_entry \in dnc_set :
            /\ Len(dnc_entry) >= MinSubstringLen
            /\ dnc_entry \notin _STOPWORDS
            /\ \/ IsSubstring(dnc_entry, norm_lead)
               \/ IsSubstring(norm_lead, dnc_entry) }

\* variant of is_do_not_contact without the test for a blank company
MatchWithoutBlankTest(company, dnc_set) ==
    LET exact     == ExactMatches(company, dnc_set)
        substring == SubstringMatches(company, dnc_set)
    IN  IF exact # { } THEN { << TRUE, v >> : v \in exact }
        ELSE IF substring # { } THEN { << TRUE, e >> : e \in substring }
        ELSE { << FALSE, << >> >> }

\* The pairs (blocked, matched) a call can return.  Both loops iterate over a
\* Python set, whose order depends on the interpreter's string hashing, so a
\* call returns the first hit of whichever order it gets.
is_do_not_contact(company, dnc_set) ==
    LET exact     == ExactMatches(company, dnc_set)
        substring == SubstringMatches(company, dnc_set)
    IN  IF IsBlank(company) THEN { << FALSE, << >> >> }
        ELSE IF exact # { } THEN { << TRUE, v >> : v \in exact }
        ELSE IF substring # { } THEN { << TRUE, e >> : e \in substring }
        ELSE { << FALSE, << >> >> }

(***************************************************************************)
(* load_do_not_contact.  A DNC source on disk is a record                  *)
(*   [columns |-> the header names, in order,                              *)
(*    cells   |-> for each column, its cells from top to bottom],          *)
(* a cell being [isna |-> TRUE] when empty and [isna |-> FALSE, text |-> s]*)
(* otherwise; `exists` is os.path.exists(path).                            *)
(***************************************************************************)
NoFile == [exists |-> FALSE, columns |-> << >>, cells |-> << >>]

Bedrijf == "Bedrijf"

\* path.lower().endswith('.csv')
IsCsvPath(path) == path \in { "data/dnc.csv", "data/DNC.CSV" }

ColumnIndex(source, col) ==
    CHOOSE k \in 1..Len(source.columns) : source.columns[k] = col

HasColumn(source, col) == \E k \in 1..Len(source.columns) : source.columns[k] = col

\* variant of DncColumn without the first-column fallback of CSV files
BedrijfColumnOnly(path, source) == Bedrijf

\* the column the registry is read from
DncColumn(path, source) ==
    IF IsCsvPath(path)
    THEN (IF HasColumn(source, Bedrijf) THEN Bedrijf ELSE source.columns[1])
    ELSE Bedrijf

\* df[col].dropna()
DropNa(cells) == SelectSeq(cells, LAMBDA c : ~c.isna)

\* the union of the variants of every name of the column
DncSetOf(cells) ==
    LET names == DropNa(cells)
    IN  UNION { _extract_variants(names[k].text) : k \in 1..Len(names) }

\* variant of load_do_not_contact that reads a missing file as an empty list
LoadMissingAsEmpty(path, source) ==
    IF ~source.exists
    THEN [raised |-> "", dnc_set |-> { }]
    ELSE IF IsCsvPath(path) /\ source.columns = << >>
    THEN [raised |-> "EmptyDataError", path |-> path]
    ELSE IF ~HasColumn(source, DncColumn(path, source))
    THEN [raised |-> "ValueError", path |-> path]
    ELSE [raised |-> "",
          dnc_set |-> DncSetOf(source.cells[ColumnIndex(source, DncColumn(path, source))])]

\* The outcome of load_do_not_contact(path) with `source` at that path: the
\* exception raised, or the set returned.
load_do_not_contact(path, source) ==
    IF ~source.exists
    THEN [raised |-> "FileNotFoundError", path |-> path]
    ELSE IF IsCsvPath(path) /\ source.columns = << >>
    THEN [raised |-> "EmptyDataError", path |-> path]
    ELSE IF ~HasColumn(source, DncColumn(path, source))
    THEN [raised |-> "ValueError", path |-> path]
    ELSE [raised |-> "",
          dnc_set |-> DncSetOf(source.cells[ColumnIndex(source, DncColumn(path, source))])]

(***************************************************************************)
(* The sheet (src/Python/src/sheets.py) and its status values              *)
(* (src/Python/src/config.py).  A row of the sheet is a record of the      *)
(* cells the pipeline reads; the header is row 1.  The status values are   *)
(* written without the symbol config.py puts in front of some of them.     *)
(***************************************************************************)
DATA_START_ROW == 2

AI_PENDING == "PENDING"
AI_RUNNING == "RUNNING"
AI_DONE == "DONE"
AI_ERROR == "ERROR"
\* AIStatus.DRY_RUN, which sheets.py uses (line 207) and its docstring
\* describes (line 20)
AI_DRY_RUN == "DRY RUN"

ENRICHED_YES == "Yes"
ENRICHED_NO == "No"

MAIL_PENDING == "PENDING"
MAIL_DRY_RUN == "DRY RUN"
MAIL_SENT == "SENT"
MAIL_ERROR == "ERROR"
MAIL_DNC == "DNC"
MAIL_SUPPRESSED == "AL GEMAILD"

\* get_all_rows: every data row with its row number, the cells stripped and
\* the email lowercased
get_all_rows(sh) ==
    [i \in 1..Len(sh) |->
        [row_number  |-> i + DATA_START_ROW - 1,
         company     |-> Strip(sh[i].company),
         email       |-> Lower(Strip(sh[i].email)),
         enriched    |-> sh[i].enriched,
         ai_status   |-> sh[i].ai_status,
         mail_status |-> sh[i].mail_status,
         datum_mail  |-> sh[i].datum_mail,
         followup_datum |-> sh[i].followup_datum,
         reactie     |-> sh[i].reactie,
         opmerking   |-> Strip(sh[i].opmerking),
         meta        |-> sh[i].meta,
         ai_bericht  |-> sh[i].ai_bericht,
         contact_id  |-> sh[i].contact_id]]

\* variant of IsMailRow that also leaves out the rows of a dry run
\* the columns of REQUIRED_META_COLS, in its order
MetaCols == << "consultant", "vestiging", "type", "hoe_contact" >>

\* the meta columns as a lead has them once the consultant filled them in
FilledMeta ==
    [consultant |-> "Jan", vestiging |-> "Nijmegen", type |-> "Cold",
     hoe_contact |-> "Mail"]

\* get_rows_for_ai: the test a row passes
IsAiRow(row) ==
    /\ row.email # << >>
    /\ IsSubstring(<< "@" >>, row.email)
    /\ row.mail_status \notin { MAIL_DNC, MAIL_SUPPRESSED }
    /\ row.ai_status \notin { AI_DONE, AI_RUNNING }
    /\ \A k \in 1..Len(MetaCols) : row.meta[MetaCols[k]] # ""

get_rows_for_ai(sh) == SelectSeq(get_all_rows(sh), IsAiRow)

IsMailRowNotDryRun(row) ==
    /\ row.ai_status = AI_DONE
    /\ row.ai_bericht # ""
    /\ row.mail_status \notin { MAIL_SENT, MAIL_DNC, MAIL_SUPPRESSED, MAIL_DRY_RUN }
    /\ row.email # << >>
    /\ IsSubstring(<< "@" >>, row.email)

IsMailRow(row) ==
    /\ row.ai_status = AI_DONE
    /\ row.ai_bericht # ""
    /\ row.mail_status \notin { MAIL_SENT, MAIL_DNC, MAIL_SUPPRESSED }
    /\ row.email # << >>
    /\ IsSubstring(<< "@" >>, row.email)

get_rows_for_mail(sh) == SelectSeq(get_all_rows(sh), IsMailRow)

load_suppressed_emails(sh) ==
    LET all_rows == get_all_rows(sh)
    IN  { Lower(Strip(all_rows[i].email)) :
            i \in { j \in 1..Len(all_rows) :
                      /\ all_rows[j].mail_status = MAIL_SENT
                      /\ all_rows[j].email # << >> } }

load_contacted_companies(sh) ==
    LET all_rows == get_all_rows(sh)
    IN  { Lower(Strip(all_rows[i].company)) :
            i \in { j \in 1..Len(all_rows) :
                      /\ all_rows[j].mail_status = MAIL_SENT
                      /\ all_rows[j].company # << >> } }

\* _update_cell: the sheet with one cell written; col is the name of the
\* column
_update_cell(sh, row, col, value) ==
    [sh EXCEPT ![row - DATA_START_ROW + 1][col] = value]

\* longest text the writers put in Opmerking
OpmerkingLimit == 500

\* text[:n]
Take(text, n) == SubSeq(text, 1, IF Len(text) < n THEN Len(text) ELSE n)

set_ai_status(sh, row_number, status) ==
    _update_cell(sh, row_number, "ai_status", status)

set_ai_result(sh, row_number, bericht, dry) ==
    LET status == IF dry THEN AI_DRY_RUN ELSE AI_DONE
    IN  _update_cell(_update_cell(sh, row_number, "ai_status", status),
                     row_number, "ai_bericht", bericht)

set_ai_error(sh, row_number, error_msg) ==
    _update_cell(_update_cell(sh, row_number, "ai_status", AI_ERROR),
                 row_number, "opmerking", Take(error_msg, OpmerkingLimit))

\* variant of set_mail_status that also clears Follow-up datum and Reactie
SetMailStatusClearingFollowUp(sh, row_number, status, error, now) ==
    LET written == _update_cell(_update_cell(sh, row_number, "mail_status", status),
                                row_number, "datum_mail",
                                IF status = MAIL_SENT THEN now ELSE "")
    IN  _update_cell(_update_cell(written, row_number, "followup_datum", ""),
                     row_number, "reactie", "")

\* set_mail_status: Mail Status and Datum Mail of one row written, and
\* Opmerking when an error text is given; now is the time of the call as
\* strftime("%d-%m-%Y %H:%M") gives it
set_mail_status(sh, row_number, status, error, now) ==
    LET datum   == IF status = MAIL_SENT THEN now ELSE ""
        written == _update_cell(_update_cell(sh, row_number, "mail_status", status),
                                row_number, "datum_mail", datum)
    IN  IF error # << >>
        THEN _update_cell(written, row_number, "opmerking",
                          Take(error, OpmerkingLimit))
        ELSE written

get_existing_contact_ids(sh) ==
    LET all_rows == get_all_rows(sh)
    IN  { all_rows[i].contact_id : i \in 1..Len(all_rows) } \ { "" }

\* append_lusha_contacts: one new row per contact
append_lusha_contacts(sh, contacts) ==
    sh \o [i \in 1..Len(contacts) |->
            [company     |-> contacts[i].companyName,
             email       |-> << >>,
             enriched    |-> ENRICHED_NO,
             ai_status   |-> AI_PENDING,
             mail_status |-> MAIL_PENDING,
             datum_mail  |-> "",
             followup_datum |-> "",
             reactie     |-> "",
             opmerking   |-> << >>,
             meta        |-> FilledMeta,
             ai_bericht  |-> "",
             contact_id  |-> contacts[i].contactId]]

(***************************************************************************)
(* State of the program (src/Python/main.py).                              *)
(***************************************************************************)
VARIABLES
    pc,                   \* where main is: "start", "menu", "mail_confirm",
                          \* "mail_loop" or "exit"
    cfg,                  \* the dict _load_config returns
    dnc_source,           \* the file at cfg.dnc_path
    sheet,                \* the data rows of the worksheet
    page_state,           \* the saved Lusha page of the preset
    dnc_set,              \* step_send_mail: the registry it loaded
    suppressed,           \* step_send_mail: the emails it loaded
    contacted_companies,  \* step_send_mail: the companies it loaded
    sendable,             \* step_send_mail: the rows still to send
    rows,                 \* step_send_mail: the rows get_rows_for_mail gave
    skip,                 \* step_send_mail: skip_dnc, skip_sup, skip_company
    dry_run,              \* step_send_mail: DRY_RUN after the toggle
    step,                 \* the step chosen last in the menu
    error,                \* the exception the step ended with
    send_calls,           \* the rows send_email was called for in this step
    status_writes,        \* the set_mail_status calls of this step
    send_log,             \* the Send Log records appended in this step
    delivered,            \* every mail send_email handed to the server
    appended,             \* leads added by Lusha searches so far
    probe                 \* the call under test of a function harness

vars ==
    << pc, cfg, dnc_source, sheet, page_state, dnc_set, suppressed,
       contacted_companies, sendable, rows, skip, dry_run, step, error,
       send_calls, status_writes, send_log, delivered, appended, probe >>

NoError == [raised |-> ""]
NoSkips == [dnc |-> 0, sup |-> 0, company |-> 0]
NoProbe == [fn |-> ""]

\* DNC_PATH, DRY_RUN and MAX_EMAILS when the profile does not set them
DefaultDncPath == "data/Niet Benaderen.xlsx"
DefaultDryRun == TRUE
DefaultMaxEmails == 20

Text(s) == [isna |-> FALSE, text |-> s]
NaN == [isna |-> TRUE]

\* the time of every set_mail_status call of the pipeline, formatted
PipelineNow == "04-11-2026 09:00"

\* str(e) of the exception send_email raises
SendError == << "s", "m", "t", "p" >>

(***************************************************************************)
(* The values the pipeline is explored with.                               *)
(***************************************************************************)
Acme == << "A", "c", "m", "e" >>
AcmePadded == << "a", "c", "m", "e", " " >>
FooBar == << "F", "o", "o", "|", "B", "a", "r" >>
Bar == << "B", "a", "r" >>

CompanyNames == { Acme, AcmePadded, FooBar }

Emails == { << "A", "@", "x" >>, << "b", "@", "x" >> }

ContactIds == { "c1" }

\* the companies a Lusha search returns
LushaCompanies == { Acme, FooBar }

\* the DNC sources at cfg.dnc_path: none, the workbook with its column, and
\* a workbook whose sheet lacks the column
PipelineSources ==
    { NoFile,
      [exists |-> TRUE, columns |-> << Bedrijf >>, cells |-> << << Text(Bar) >> >>],
      [exists |-> TRUE, columns |-> << "Naam" >>, cells |-> << << Text(Bar) >> >>] }

\* the rows a sheet can hold when the program starts: leads of earlier
\* sessions with their message generated, mailed or not
StartRows ==
    { r \in [company : CompanyNames, email : Emails, enriched : { ENRICHED_YES },
             ai_status : { AI_DONE }, mail_status : { MAIL_PENDING, MAIL_SENT },
             datum_mail : { "", PipelineNow }, followup_datum : { "" },
             reactie : { "" }, opmerking : { << >> }, meta : { FilledMeta },
             ai_bericht : { "msg" },
             contact_id : { "" }] :
        r.datum_mail # "" <=> r.mail_status = MAIL_SENT }

StartSheets == UNION { [1..n -> StartRows] : n \in 0..MaxRows }

LushaContacts ==
    UNION { [1..n -> [companyName : LushaCompanies, contactId : ContactIds]] :
            n \in 0..MaxNewLeads }

Init ==
    /\ pc = "start"
    /\ cfg = [dnc_path |-> DefaultDncPath, dry_run |-> DefaultDryRun,
               max_emails |-> DefaultMaxEmails]
    /\ dnc_source \in PipelineSources
    /\ sheet \in StartSheets
    /\ page_state = 1
    /\ dnc_set = { }
    /\ suppressed = { }
    /\ contacted_companies = { }
    /\ sendable = << >>
    /\ rows = << >>
    /\ skip = NoSkips
    /\ dry_run = TRUE
    /\ step = ""
    /\ error = NoError
    /\ send_calls = << >>
    /\ status_writes = { }
    /\ send_log = << >>
    /\ delivered = << >>
    /\ appended = 0
    /\ probe = NoProbe

mail_locals ==
    << dnc_set, suppressed, contacted_companies, sendable, rows, skip, dry_run >>
run_ghosts == << send_calls, status_writes, send_log >>

(***************************************************************************)
(* main: configuration and connection, then the menu loop.                 *)
(***************************************************************************)
MainStart(config_ok) ==
    /\ pc = "start"
    /\ pc' = IF config_ok THEN "menu" ELSE "exit"
    /\ UNCHANGED << cfg, dnc_source, sheet, page_state, mail_locals, step,
                    error, run_ghosts, delivered, appended, probe >>

Quit ==
    /\ pc = "menu"
    /\ pc' = "exit"
    /\ UNCHANGED << cfg, dnc_source, sheet, page_state, mail_locals, step,
                    error, run_ghosts, delivered, appended, probe >>

\* whether is_do_not_contact reports the company blocked
Blocked(company, dnc) == \E r \in is_do_not_contact(company, dnc) : r[1]

(***************************************************************************)
(* step_lusha_search                                                       *)
(***************************************************************************)
\* the loop that marks new DNC leads, from row k of all_rows on
RECURSIVE MarkDncLoop(_, _, _, _)
MarkDncLoop(sh, all_rows, k, dnc) ==
    IF k > Len(all_rows) THEN sh
    ELSE IF /\ all_rows[k].mail_status \in { "", MAIL_PENDING }
            /\ Blocked(all_rows[k].company, dnc)
         THEN MarkDncLoop(set_mail_status(sh, all_rows[k].row_number, MAIL_DNC,
                                          << >>, PipelineNow),
                          all_rows, k + 1, dnc)
         ELSE MarkDncLoop(sh, all_rows, k + 1, dnc)

\* the set_mail_status calls that turned sheet `before` into `after`: each
\* call of the marking and filter loops changes the status of the row it writes
StatusWrites(before, after) ==
    { << i + DATA_START_ROW - 1, after[i].mail_status >> :
        i \in { j \in 1..Len(before) :
                  after[j].mail_status # before[j].mail_status } }

\* contacts: what the search returns; accept: the answer to "Voeg ... toe?";
\* override: the page typed at the prompt, 0 for Enter
step_lusha_search(contacts, accept, override) ==
    LET start_page   == IF override # 0 THEN override ELSE page_state
        existing_ids == get_existing_contact_ids(sheet)
        new_contacts == SelectSeq(contacts, LAMBDA c : c.contactId \notin existing_ids)
        added        == append_lusha_contacts(sheet, new_contacts)
        loaded       == load_do_not_contact(cfg.dnc_path, dnc_source)
        marked       == MarkDncLoop(added, get_all_rows(added), 1, loaded.dnc_set)
    IN
    /\ pc = "menu"
    /\ appended + Len(new_contacts) <= MaxNewLeads
    /\ step' = "lusha"
    /\ send_calls' = << >>
    /\ send_log' = << >>
    /\ pc' = "menu"
    /\ IF contacts = << >> \/ new_contacts = << >> \/ ~accept
       THEN /\ error' = NoError
            /\ status_writes' = { }
            /\ UNCHANGED << sheet, page_state, appended >>
       ELSE /\ page_state' = start_page + 1
            /\ appended' = appended + Len(new_contacts)
            /\ IF loaded.raised = "FileNotFoundError"
               THEN /\ sheet' = added
                    /\ error' = NoError
                    /\ status_writes' = { }
               ELSE IF loaded.raised # ""
               THEN /\ sheet' = added
                    /\ error' = loaded
                    /\ status_writes' = { }
               ELSE /\ sheet' = marked
                    /\ error' = NoError
                    /\ status_writes' = StatusWrites(added, marked)
    /\ UNCHANGED << cfg, dnc_source, mail_locals, delivered, probe >>

(***************************************************************************)
(* step_send_mail                                                          *)
(***************************************************************************)
\* variant of Classify without the contacted-company rule
ClassifyWithoutCompanyRule(row, dnc, sup, contacted) ==
    IF Blocked(row.company, dnc) THEN "dnc"
    ELSE IF row.email \in sup THEN "suppressed"
    ELSE "sendable"

\* variant of Classify that tests the suppressed email before the registry
ClassifySuppressedFirst(row, dnc, sup, contacted) ==
    IF row.email \in sup THEN "suppressed"
    ELSE IF Blocked(row.company, dnc) THEN "dnc"
    ELSE IF Lower(row.company) \in contacted THEN "company"
    ELSE "sendable"

\* the branch of the filter loop a row takes
Classify(row, dnc, sup, contacted) ==
    IF Blocked(row.company, dnc) THEN "dnc"
    ELSE IF row.email \in sup THEN "suppressed"
    ELSE IF Lower(row.company) \in contacted THEN "company"
    ELSE "sendable"

\* the sheet after the filter loop, from row k of the rows on; verdicts[k] is
\* the branch row k takes
RECURSIVE FilterLoop(_, _, _, _)
FilterLoop(sh, mail_rows, k, verdicts) ==
    IF k > Len(mail_rows) THEN sh
    ELSE LET written ==
                 IF verdicts[k] = "dnc"
                 THEN set_mail_status(sh, mail_rows[k].row_number, MAIL_DNC,
                                      << >>, PipelineNow)
                 ELSE IF verdicts[k] = "suppressed"
                 THEN set_mail_status(sh, mail_rows[k].row_number,
                                      MAIL_SUPPRESSED, << >>, PipelineNow)
                 ELSE sh
         IN  FilterLoop(written, mail_rows, k + 1, verdicts)

\* the rows appended to sendable, in order
RECURSIVE Sendable(_, _, _)
Sendable(mail_rows, k, verdicts) ==
    IF k > Len(mail_rows) THEN << >>
    ELSE (IF verdicts[k] = "sendable" THEN << mail_rows[k] >> ELSE << >>)
         \o Sendable(mail_rows, k + 1, verdicts)

\* how often the filter loop took the branch `reason`
Skipped(verdicts, reason) ==
    Cardinality({ k \in DOMAIN verdicts : verdicts[k] = reason })

\* lines 607-655: the rows, the three block lists, the filter loop
SendMailFilter ==
    LET found    == get_rows_for_mail(sheet)
        loaded   == load_do_not_contact(cfg.dnc_path, dnc_source)
        sup      == load_suppressed_emails(sheet)
        comp     == load_contacted_companies(sheet)
        verdicts == [k \in 1..Len(found) |->
                        Classify(found[k], loaded.dnc_set, sup, comp)]
        filtered == FilterLoop(sheet, found, 1, verdicts)
        passed   == Sendable(found, 1, verdicts)
    IN
    /\ pc = "menu"
    /\ step' = "mail"
    /\ send_calls' = << >>
    /\ send_log' = << >>
    /\ IF found = << >>
       THEN /\ pc' = "menu"
            /\ error' = NoError
            /\ status_writes' = { }
            /\ sendable' = << >>
            /\ rows' = << >>
            /\ skip' = NoSkips
            /\ UNCHANGED << sheet, dnc_set, suppressed, contacted_companies >>
       ELSE IF loaded.raised # ""
       THEN /\ pc' = "menu"
            /\ error' = loaded
            /\ status_writes' = { }
            /\ sendable' = << >>
            /\ rows' = << >>
            /\ skip' = NoSkips
            /\ UNCHANGED << sheet, dnc_set, suppressed, contacted_companies >>
       ELSE /\ rows' = found
            /\ skip' = [dnc     |-> Skipped(verdicts, "dnc"),
                        sup     |-> Skipped(verdicts, "suppressed"),
                        company |-> Skipped(verdicts, "company")]
            /\ dnc_set' = loaded.dnc_set
            /\ suppressed' = sup
            /\ contacted_companies' = comp
            /\ sheet' = filtered
            /\ status_writes' = StatusWrites(sheet, filtered)
            /\ sendable' = passed
            /\ error' = NoError
            /\ pc' = IF passed = << >> THEN "menu" ELSE "mail_confirm"
    /\ UNCHANGED << cfg, dnc_source, page_state, dry_run, delivered, appended, probe >>

Min(a, b) == IF a <= b THEN a ELSE b

\* step_send_mail returns to the menu: its locals are gone, and the record
\* of what the step did is closed
MailReturns ==
    /\ pc' = "menu"
    /\ dnc_set' = { }
    /\ suppressed' = { }
    /\ contacted_companies' = { }
    /\ sendable' = << >>
    /\ rows' = << >>
    /\ skip' = NoSkips
    /\ dry_run' = TRUE
    /\ send_calls' = << >>
    /\ status_writes' = { }
    /\ send_log' = << >>

\* lines 657-698.  toggle: the answer to "DRY_RUN omzetten?"; typed, n: a
\* number n typed at "Hoeveel mails versturen?" (Enter when not typed);
\* confirm: the answer to "Verstuur ... mail(s)?"; smtp_ok: verify_connection
SendMailConfirm(toggle, typed, n, confirm, smtp_ok) ==
    LET dry      == IF toggle THEN ~cfg.dry_run ELSE cfg.dry_run
        max_send == IF typed THEN n ELSE Min(cfg.max_emails, Len(sendable))
        batch    == SubSeq(sendable, 1, Min(max_send, Len(sendable)))
    IN
    /\ pc = "mail_confirm"
    /\ IF batch = << >>
       THEN \* first = sendable[0] on an empty list
            /\ error' = [raised |-> "IndexError"]
            /\ MailReturns
       ELSE IF ~confirm \/ (~dry /\ ~smtp_ok)
       THEN /\ MailReturns
            /\ UNCHANGED error
       ELSE /\ pc' = "mail_loop"
            /\ sendable' = batch
            /\ dry_run' = dry
            /\ UNCHANGED << error, dnc_set, suppressed, contacted_companies,
                            rows, skip, run_ghosts >>
    /\ UNCHANGED << cfg, dnc_source, sheet, page_state, step, delivered,
                    appended, probe >>

LogRecord(row, status) ==
    [email |-> row.email, company |-> row.company, status |-> status]

\* lines 700-752: one pass of the send loop.  smtp_ok: send_email returns a
\* message id (it raises otherwise)
SendMailRow(smtp_ok) ==
    LET row == Head(sendable)
    IN
    /\ pc = "mail_loop"
    /\ sendable # << >>
    /\ sendable' = Tail(sendable)
    /\ IF dry_run
       THEN /\ sheet' = set_mail_status(sheet, row.row_number, MAIL_DRY_RUN,
                                     << >>, PipelineNow)
            /\ status_writes' = status_writes \cup { << row.row_number, MAIL_DRY_RUN >> }
            /\ send_log' = Append(send_log, LogRecord(row, "DRY RUN"))
            /\ UNCHANGED << send_calls, delivered >>
       ELSE IF smtp_ok
       THEN /\ send_calls' = Append(send_calls, row)
            /\ delivered' = Append(delivered, [email |-> row.email, company |-> row.company])
            /\ sheet' = set_mail_status(sheet, row.row_number, MAIL_SENT,
                                     << >>, PipelineNow)
            /\ status_writes' = status_writes \cup { << row.row_number, MAIL_SENT >> }
            /\ send_log' = Append(send_log, LogRecord(row, "SENT"))
       ELSE /\ send_calls' = Append(send_calls, row)
            /\ sheet' = set_mail_status(sheet, row.row_number, MAIL_ERROR,
                                     SendError, PipelineNow)
            /\ status_writes' = status_writes \cup { << row.row_number, MAIL_ERROR >> }
            /\ send_log' = Append(send_log, LogRecord(row, "ERROR"))
            /\ UNCHANGED delivered
    /\ UNCHANGED << pc, cfg, dnc_source, page_state, dnc_set, suppressed,
                    contacted_companies, rows, skip, dry_run, step, error,
                    appended, probe >>

\* lines 754-756: the loop is through, back to the menu
SendMailDone ==
    /\ pc = "mail_loop"
    /\ sendable = << >>
    /\ MailReturns
    /\ UNCHANGED << cfg, dnc_source, sheet, page_state, step, error,
                    delivered, appended, probe >>

\* KeyboardInterrupt at a prompt or between two mails: main returns to the menu
Interrupt ==
    /\ pc \in { "mail_confirm", "mail_loop" }
    /\ MailReturns
    /\ UNCHANGED << cfg, dnc_source, sheet, page_state, step, error,
                    delivered, appended, probe >>

Next ==
    \/ \E config_ok \in BOOLEAN : MainStart(config_ok)
    \/ Quit
    \/ \E contacts \in LushaContacts, accept \in BOOLEAN, override \in 0..1 :
          step_lusha_search(contacts, accept, override)
    \/ SendMailFilter
    \/ \E toggle \in BOOLEAN, typed \in BOOLEAN, n \in 0..(Len(sendable) + 1),
          confirm \in BOOLEAN, smtp_ok \in BOOLEAN :
          /\ ~typed => n = 0
          /\ SendMailConfirm(toggle, typed, n, confirm, smtp_ok)
    \/ \E smtp_ok \in BOOLEAN : SendMailRow(smtp_ok)
    \/ SendMailDone
    \/ Interrupt

Spec == Init /\ [][Next]_vars

(***************************************************************************)
(* Harnesses for the functions of storage.py: the probe holds the          *)
(* arguments of one call and, once the call is made, what it returned.     *)
(* The program itself is not running (pc = "harness").                     *)
(***************************************************************************)
program_vars ==
    << pc, cfg, dnc_source, sheet, page_state, dnc_set, suppressed,
       contacted_companies, sendable, rows, skip, dry_run, step, error,
       send_calls, status_writes, send_log, delivered, appended >>

HarnessIdle ==
    /\ pc = "harness"
    /\ cfg = [dnc_path |-> DefaultDncPath, dry_run |-> DefaultDryRun,
               max_emails |-> DefaultMaxEmails]
    /\ dnc_source = NoFile
    /\ sheet = << >>
    /\ page_state = 1
    /\ dnc_set = { }
    /\ suppressed = { }
    /\ contacted_companies = { }
    /\ sendable = << >>
    /\ rows = << >>
    /\ skip = NoSkips
    /\ dry_run = TRUE
    /\ step = ""
    /\ error = NoError
    /\ send_calls = << >>
    /\ status_writes = { }
    /\ send_log = << >>
    /\ delivered = << >>
    /\ appended = 0

\* the characters of the names enumerated exhaustively
Alphabet == { "a", "b", "v", " ", ".", "-", "|" }

BoundedNames == UNION { [1..n -> Alphabet] : n \in 0..MaxLen }

MelkwegFritom ==
    <<"M", "e", "l", "k", "w", "e", "g", "|", "F", "r", "i", "t", "o", "m">>
Fritom == <<"F", "r", "i", "t", "o", "m">>
RoyalFrieslandCampina ==
    <<"R", "o", "y", "a", "l", " ", "F", "r", "i", "e", "s", "l", "a", "n", "d",
      "C", "a", "m", "p", "i", "n", "a">>
FrieslandCampinaNederland ==
    <<"F", "r", "i", "e", "s", "l", "a", "n", "d", "C", "a", "m", "p", "i", "n",
      "a", " ", "N", "e", "d", "e", "r", "l", "a", "n", "d">>
RoyalFrieslandCampinaNederland ==
    <<"R", "o", "y", "a", "l", " ", "F", "r", "i", "e", "s", "l", "a", "n", "d",
      "C", "a", "m", "p", "i", "n", "a", " ", "N", "e", "d", "e", "r", "l", "a",
      "n", "d">>
SanbioBV == <<"S", "a", "n", "b", "i", "o", " ", "B", ".", "V", ".">>
OnlyBV == <<"B", ".", "V", ".">>
NabuursTagline ==
    <<"N", "a", "b", "u", "u", "r", "s", " ", "-", " ", "s", "u", "p", "p", "l",
      "y", " ", "c", "h", "a", "i", "n", " ", "s", "o", "l", "u", "t", "i", "o",
      "n", "s">>

Logistics ==
    <<"L", "o", "g", "i", "s", "t", "i", "c", "s">>
SomeLogisticsCompany ==
    <<"S", "o", "m", "e", " ", "L", "o", "g", "i", "s", "t", "i", "c", "s",
      " ", "C", "o", "m", "p", "a", "n", "y">>
MelkwegFritomUnsplit ==
    <<"M", "e", "l", "k", "w", "e", "g", " ", "F", "r", "i", "t", "o", "m">>

NamedNames ==
    { MelkwegFritom, Fritom, RoyalFrieslandCampina, FrieslandCampinaNederland,
      RoyalFrieslandCampinaNederland, SanbioBV, OnlyBV, NabuursTagline,
      Logistics, SomeLogisticsCompany, MelkwegFritomUnsplit }

\* the names a harness calls the functions with
ProbeNames == BoundedNames \cup NamedNames

\* the raw names DNC registries are built from
RegistryNames ==
    { Fritom, RoyalFrieslandCampina, Logistics, MelkwegFritom, << "A" >>,
      << "a", "-", "b" >> }

\* the registries load_do_not_contact builds from at most MaxDncNames names
Registries ==
    { UNION { _extract_variants(n) : n \in S } :
        S \in { T \in SUBSET RegistryNames : Cardinality(T) <= MaxDncNames } }

(***************************************************************************)
(* SpecNormalize: _normalize_company and _extract_variants on one name.    *)
(***************************************************************************)
InitNormalize ==
    /\ HarnessIdle
    /\ probe \in [fn : { "input" }, raw : ProbeNames]

CallNormalize ==
    /\ probe.fn = "input"
    /\ probe' = [fn |-> "_normalize_company", raw |-> probe.raw,
                 out |-> _normalize_company(probe.raw)]
    /\ UNCHANGED program_vars

\* the token returned is normalized once more
CallNormalizeAgain ==
    /\ probe.fn = "_normalize_company"
    /\ probe' = [fn |-> "_normalize_company twice", raw |-> probe.raw,
                 out |-> probe.out, again |-> _normalize_company(probe.out)]
    /\ UNCHANGED program_vars

CallExtractVariants ==
    /\ probe.fn = "input"
    /\ probe' = [fn |-> "_extract_variants", raw |-> probe.raw,
                 variants |-> _extract_variants(probe.raw)]
    /\ UNCHANGED program_vars

NextNormalize == CallNormalize \/ CallNormalizeAgain \/ CallExtractVariants

SpecNormalize == InitNormalize /\ [][NextNormalize]_vars

(***************************************************************************)
(* SpecMatch: is_do_not_contact on one name and one registry.              *)
(***************************************************************************)
InitMatch ==
    /\ HarnessIdle
    /\ probe \in [fn : { "input" }, company : ProbeNames, registry : Registries]

CallIsDoNotContact ==
    /\ probe.fn = "input"
    /\ \E r \in is_do_not_contact(probe.company, probe.registry) :
          probe' = [fn |-> "is_do_not_contact", company |-> probe.company,
                    registry |-> probe.registry,
                    blocked |-> r[1], matched |-> r[2]]
    /\ UNCHANGED program_vars

NextMatch == CallIsDoNotContact

SpecMatch == InitMatch /\ [][NextMatch]_vars

(***************************************************************************)
(* SpecLoad: load_do_not_contact on one path and the source found there.   *)
(***************************************************************************)
DncPaths == { DefaultDncPath, "data/dnc.csv", "data/DNC.CSV" }

ColumnLayouts ==
    { << >>, << Bedrijf >>, << "Naam" >>, << "Naam", Bedrijf >>,
      << "Naam", "Plaats" >> }

CellValues == { NaN, Text(Fritom), Text(OnlyBV), Text(MelkwegFritom) }

\* the sources with n rows under the header `columns`
SourcesWith(columns, n) ==
    { [exists |-> TRUE, columns |-> columns, cells |-> cells] :
        cells \in [1..Len(columns) -> [1..n -> CellValues]] }

LoadSources ==
    { NoFile }
    \cup UNION { SourcesWith(columns, n) :
                   columns \in ColumnLayouts, n \in 0..MaxDncNames }

InitLoad ==
    /\ HarnessIdle
    /\ probe \in [fn : { "input" }, path : DncPaths, source : LoadSources]

CallLoadDoNotContact ==
    /\ probe.fn = "input"
    /\ probe' = [fn |-> "load_do_not_contact", path |-> probe.path,
                 source |-> probe.source,
                 outcome |-> load_do_not_contact(probe.path, probe.source)]
    /\ UNCHANGED program_vars

NextLoad == CallLoadDoNotContact

SpecLoad == InitLoad /\ [][NextLoad]_vars

(***************************************************************************)
(* Contact moments (src/Python/src/recent_contacts.py): the weight of a    *)
(* contact type.                                                           *)
(***************************************************************************)
_LIGHT_CONTACT_TYPES ==
    { <<"g", "e", "m", "a", "i", "l", "d">>,
      <<"g", "e", "b", "e", "l", "d">>,
      <<"g", "e", "m", "a", "i", "l", "e", "d">> }

RefError == <<"#", "r", "e", "f", "!">>

\* the index of the first ")" from i on that `.*?` can reach, 0 if a newline
\* or the end of the string comes first
RECURSIVE ClosingParen(_, _)
ClosingParen(s, i) ==
    IF i > Len(s) \/ s[i] = "\n" THEN 0
    ELSE IF s[i] = ")" THEN i
    ELSE ClosingParen(s, i + 1)

\* where a match of \s*\(.*?\) that starts at index i ends, 0 if none does
AnnotationEnd(s, i) ==
    LET open == i + WsRun(s, i)
    IN  IF open <= Len(s) /\ s[open] = "("
        THEN ClosingParen(s, open + 1)
        ELSE 0

\* re.sub(r"\s*\(.*?\)", "", part), from index i on
RECURSIVE StripAnnotations(_, _)
StripAnnotations(s, i) ==
    IF i > Len(s) THEN << >>
    ELSE LET end == AnnotationEnd(s, i)
         IN  IF end # 0
             THEN StripAnnotations(s, end + 1)
             ELSE << s[i] >> \o StripAnnotations(s, i + 1)

CleanType(part) == Lower(Strip(StripAnnotations(part, 1)))

_normalize_type(raw_type) ==
    LET parts == Split(raw_type, << ";" >>)
    IN  { CleanType(parts[k]) : k \in 1..Len(parts) } \ { << >>, RefError }

\* variant of _is_light_contact that asks for one light sub-type only
HasLightContact(types) == types \cap _LIGHT_CONTACT_TYPES # { }

_is_light_contact(types) ==
    types # { } /\ types \subseteq _LIGHT_CONTACT_TYPES

(***************************************************************************)
(* SpecType: _normalize_type and _is_light_contact on one type label.  A   *)
(* label is put together from sub-types, each listed with the name it has  *)
(* without its annotation, trimmed and in lower case.                      *)
(***************************************************************************)
SubTypes ==
    {
       [text  |-> <<"G", "e", "m", "a", "i", "l", "d">>,
        clean |-> <<"g", "e", "m", "a", "i", "l", "d">>],
       [text  |-> <<"g", "e", "b", "e", "l", "d">>,
        clean |-> <<"g", "e", "b", "e", "l", "d">>],
       [text  |-> <<"G", "e", "m", "a", "i", "l", "e", "d">>,
        clean |-> <<"g", "e", "m", "a", "i", "l", "e", "d">>],
       [text  |-> <<" ", "G", "e", "s", "p", "r", "e", "k">>,
        clean |-> <<"g", "e", "s", "p", "r", "e", "k">>],
       [text  |-> <<"#", "R", "E", "F", "!">>,
        clean |-> <<"#", "r", "e", "f", "!">>],
       [text  |-> << >>,
        clean |-> << >>],
       [text  |-> <<"G", "e", "m", "a", "i", "l", "d", " ", "(", "2", ")">>,
        clean |-> <<"g", "e", "m", "a", "i", "l", "d">>],
       [text  |-> <<"G", "e", "b", "e", "l", "d", " ", "(", "1", ")", " ", "(", "x", ")">>,
        clean |-> <<"g", "e", "b", "e", "l", "d">>],
       [text  |-> <<"(", "3", ")">>,
        clean |-> << >>],
       [text  |-> <<"A", "f", "s", "p", "r", "a", "a", "k", " ", "(", "5">>,
        clean |-> <<"a", "f", "s", "p", "r", "a", "a", "k", " ", "(", "5">>] }

\* most sub-types in one label
MaxParts == 2

\* the sub-type texts joined with ";"
RECURSIVE JoinTypes(_)
JoinTypes(parts) ==
    IF parts = << >> THEN << >>
    ELSE IF Len(parts) = 1 THEN parts[1].text
    ELSE parts[1].text \o << ";" >> \o JoinTypes(Tail(parts))

TypeLabels == UNION { [1..n -> SubTypes] : n \in 1..MaxParts }

InitType ==
    /\ HarnessIdle
    /\ probe \in { [fn |-> "input", parts |-> parts, raw_type |-> JoinTypes(parts)] :
                     parts \in TypeLabels }

CallNormalizeType ==
    /\ probe.fn = "input"
    /\ probe' = [fn |-> "_normalize_type", parts |-> probe.parts,
                 raw_type |-> probe.raw_type,
                 types |-> _normalize_type(probe.raw_type)]
    /\ UNCHANGED program_vars

CallIsLightContact ==
    /\ probe.fn = "_normalize_type"
    /\ probe' = [fn |-> "_is_light_contact", parts |-> probe.parts,
                 raw_type |-> probe.raw_type, types |-> probe.types,
                 light |-> _is_light_contact(probe.types)]
    /\ UNCHANGED program_vars

NextType == CallNormalizeType \/ CallIsLightContact

SpecType == InitType /\ [][NextType]_vars

(***************************************************************************)
(* Contact moments: dates.  A datetime is a record                         *)
(*   [year, month, day, tick]                                              *)
(* with tick the time of day, a day having TicksPerDay ticks.              *)
(***************************************************************************)
\* ticks in a day: the resolution of the time of day
TicksPerDay == 2

IsLeap(year) == year % 4 = 0 /\ (year % 100 # 0 \/ year % 400 = 0)

DaysInMonth(year, month) ==
    IF month = 2 THEN (IF IsLeap(year) THEN 29 ELSE 28)
    ELSE IF month \in { 4, 6, 9, 11 } THEN 30
    ELSE 31

RECURSIVE DaysBeforeMonth(_, _)
DaysBeforeMonth(year, month) ==
    IF month = 1 THEN 0
    ELSE DaysBeforeMonth(year, month - 1) + DaysInMonth(year, month - 1)

DaysBeforeYear(year) ==
    LET y == year - 1
    IN  y * 365 + (y \div 4) - (y \div 100) + (y \div 400)

\* date.toordinal()
Ordinal(d) == DaysBeforeYear(d.year) + DaysBeforeMonth(d.year, d.month) + d.day

\* a datetime as its number of ticks; datetimes compare as these do, and
\* the timedelta between two datetimes is the difference
Instant(d) == Ordinal(d) * TicksPerDay + d.tick

\* whether datetime(year, month, day) exists (ValueError otherwise)
IsDate(d) ==
    /\ d.month \in 1..12
    /\ d.day \in 1..DaysInMonth(d.year, d.month)

\* datum.replace(day=datum.month, month=datum.day), before its validation
SwapDayMonth(datum) == [datum EXCEPT !.day = datum.month, !.month = datum.day]

\* variant of _fix_date that swaps every future date with a day up to 12
FixDateWithoutPastTest(datum, now) ==
    IF Instant(datum) <= Instant(now) THEN datum
    ELSE IF datum.day <= 12 /\ IsDate(SwapDayMonth(datum))
    THEN SwapDayMonth(datum)
    ELSE datum

_fix_date(datum, now) ==
    IF Instant(datum) <= Instant(now) THEN datum
    ELSE IF datum.day <= 12
    THEN LET swapped == SwapDayMonth(datum)
         IN  IF IsDate(swapped) /\ Instant(swapped) <= Instant(now)
             THEN swapped
             ELSE datum
    ELSE datum

(***************************************************************************)
(* SpecFixDate: _fix_date on one stored date and one current time.         *)
(***************************************************************************)
DateYears == { 2025, 2026 }
DateDays == { 1, 2, 6, 12, 13, 28 }

StoredDates ==
    [year : DateYears, month : 1..12, day : DateDays, tick : 0..(TicksPerDay - 1)]

CurrentTimes ==
    { [year |-> 2026, month |-> 3, day |-> 10, tick |-> 1],
      [year |-> 2026, month |-> 6, day |-> 2, tick |-> 0] }

InitFixDate ==
    /\ HarnessIdle
    /\ probe \in [fn : { "input" }, datum : StoredDates, now : CurrentTimes]

CallFixDate ==
    /\ probe.fn = "input"
    /\ probe' = [fn |-> "_fix_date", datum |-> probe.datum, now |-> probe.now,
                 out |-> _fix_date(probe.datum, probe.now)]
    /\ UNCHANGED program_vars

NextFixDate == CallFixDate

SpecFixDate == InitFixDate /\ [][NextFixDate]_vars

(***************************************************************************)
(* Contact moments: is_recent_contact and get_blocked_companies.           *)
(* The dict recent_contacts is the sequence of its items in insertion      *)
(* order, [key |-> the company key, rows |-> the list stored under it].    *)
(* Lists are objects: `rows` is the identity of a list, and `lists` gives  *)
(* the events each list holds, an event being [datum, type_raw].  The      *)
(* list `matches = []` of a call has the identity NewList.                 *)
(***************************************************************************)
_COOLDOWN_LIGHT == 90 * TicksPerDay
_COOLDOWN_HEAVY == 365 * TicksPerDay

NewList == 0

HasKey(recent_contacts, key) ==
    \E k \in 1..Len(recent_contacts) : recent_contacts[k].key = key

KeyIndex(recent_contacts, key) ==
    CHOOSE k \in 1..Len(recent_contacts) : recent_contacts[k].key = key

\* len(key) >= 4 and (key in stored_key or stored_key in key)
\* variant of IsFuzzyMatch without the test on the length of key
FuzzyMatchAnyLength(key, stored_key) ==
    IsSubstring(key, stored_key) \/ IsSubstring(stored_key, key)

IsFuzzyMatch(key, stored_key) ==
    /\ Len(key) >= 4
    /\ IsSubstring(key, stored_key) \/ IsSubstring(stored_key, key)

\* variant of FuzzyTarget in which the first stored list collects the matches
FirstStoredList(recent_contacts) ==
    IF recent_contacts = << >> THEN NewList ELSE recent_contacts[1].rows

\* the list the fuzzy loop extends: the one made by `matches = []`
FuzzyTarget(recent_contacts) == NewList

\* the lists after the loop over recent_contacts.items(), from item k on,
\* with matches.extend(rows) done on the list `matches`
RECURSIVE FuzzyLoop(_, _, _, _, _)
FuzzyLoop(recent_contacts, lists, k, key, matches) ==
    IF k > Len(recent_contacts) THEN lists
    ELSE IF IsFuzzyMatch(key, recent_contacts[k].key)
    THEN FuzzyLoop(recent_contacts,
                   [lists EXCEPT ![matches] = @ \o lists[recent_contacts[k].rows]],
                   k + 1, key, matches)
    ELSE FuzzyLoop(recent_contacts, lists, k + 1, key, matches)

\* lines 170-181: the list `matches` ends up bound to, and the lists then
CollectMatches(company, recent_contacts, lists) ==
    LET key     == Lower(Strip(company))
        created == [id \in DOMAIN lists \cup { NewList } |->
                       IF id = NewList THEN << >> ELSE lists[id]]
    IN  IF HasKey(recent_contacts, key)
        THEN [matches |-> recent_contacts[KeyIndex(recent_contacts, key)].rows,
              lists   |-> created]
        ELSE [matches |-> FuzzyTarget(recent_contacts),
              lists   |-> FuzzyLoop(recent_contacts, created, 1, key,
                                    FuzzyTarget(recent_contacts))]

\* the events `matches` holds when line 183 is reached
Matches(company, recent_contacts, lists) ==
    LET collected == CollectMatches(company, recent_contacts, lists)
    IN  collected.lists[collected.matches]

Cooldown(type_raw) ==
    IF _is_light_contact(_normalize_type(type_raw))
    THEN _COOLDOWN_LIGHT
    ELSE _COOLDOWN_HEAVY

\* variant of InCooldown that still blocks at an age of exactly the cooldown
InCooldownInclusive(event, now) ==
    Instant(now) - Instant(event.datum) <= Cooldown(event.type_raw)

\* age < cooldown
InCooldown(event, now) ==
    Instant(now) - Instant(event.datum) < Cooldown(event.type_raw)

\* The reason returned for a blocking event: the values the f-string of
\* lines 198-200 puts between its fixed words, namely the contact label,
\* the date as day, month, year, the cooldown class and the days remaining.
Reason(event, now) ==
    LET light == _is_light_contact(_normalize_type(event.type_raw))
    IN  << IF light THEN "gemaild/gebeld" ELSE "zwaarder contact",
           << event.datum.day, event.datum.month, event.datum.year >>,
           IF light THEN "3 mnd" ELSE "1 jaar",
           (Instant(event.datum) + Cooldown(event.type_raw) - Instant(now))
               \div TicksPerDay >>

\* lines 186-203: the loop over matches, from event k on
RECURSIVE CooldownLoop(_, _, _)
CooldownLoop(matches, k, now) ==
    IF k > Len(matches) THEN << FALSE, << >> >>
    ELSE IF InCooldown(matches[k], now)
    THEN << TRUE, Reason(matches[k], now) >>
    ELSE CooldownLoop(matches, k + 1, now)

\* is_recent_contact(company, recent_contacts, now): what it returns, and
\* the stored lists when it has returned
is_recent_contact(company, recent_contacts, lists, now) ==
    LET collected == CollectMatches(company, recent_contacts, lists)
        result    == CooldownLoop(collected.lists[collected.matches], 1, now)
    IN  [blocked |-> result[1],
         reason  |-> result[2],
         lists   |-> [id \in DOMAIN lists |-> collected.lists[id]]]

\* get_blocked_companies, from item k of recent_contacts on: the dict
\* `blocked` as the sequence of its items, and the stored lists at the end
RECURSIVE BlockedFrom(_, _, _, _)
BlockedFrom(recent_contacts, lists, k, now) ==
    IF k > Len(recent_contacts) THEN [blocked |-> << >>, lists |-> lists]
    ELSE LET call == is_recent_contact(recent_contacts[k].key, recent_contacts,
                                       lists, now)
             rest == BlockedFrom(recent_contacts, call.lists, k + 1, now)
         IN  [blocked |-> (IF call.blocked
                           THEN << [key    |-> recent_contacts[k].key,
                                    reason |-> call.reason] >>
                           ELSE << >>) \o rest.blocked,
              lists   |-> rest.lists]

get_blocked_companies(recent_contacts, lists, now) ==
    BlockedFrom(recent_contacts, lists, 1, now)

\* load_recent_contacts, line 145: contacts.setdefault(key, []).append(event);
\* a list made by setdefault gets the next free identity
AppendContact(recent_contacts, lists, key, event) ==
    IF HasKey(recent_contacts, key)
    THEN LET stored == recent_contacts[KeyIndex(recent_contacts, key)].rows
         IN  [recent_contacts |-> recent_contacts,
              lists           |-> [lists EXCEPT ![stored] = @ \o << event >>]]
    ELSE [recent_contacts |-> recent_contacts
                                 \o << [key |-> key, rows |-> Len(lists) + 1] >>,
          lists           |-> lists \o << << event >> >>]

(***************************************************************************)
(* SpecRecent: is_recent_contact and get_blocked_companies on one history. *)
(* The events lie around the two cooldown limits of RecentNow: 89.5 and    *)
(* 90 days old, 364.5 and 365 days old, and one in the future.             *)
(***************************************************************************)
RecentNow == [year |-> 2026, month |-> 6, day |-> 15, tick |-> 1]

LightInside ==
    [datum    |-> [year |-> 2026, month |-> 3, day |-> 18, tick |-> 0],
     type_raw |-> <<"G", "e", "m", "a", "i", "l", "d", " ", "(", "2", ")">>]
LightAtLimit ==
    [datum    |-> [year |-> 2026, month |-> 3, day |-> 17, tick |-> 1],
     type_raw |-> <<"g", "e", "b", "e", "l", "d">>]
HeavyInside ==
    [datum    |-> [year |-> 2025, month |-> 6, day |-> 16, tick |-> 0],
     type_raw |-> <<"G", "e", "m", "a", "i", "l", "d", " ", "(", "2", ")", ";", " ", "G", "e", "s", "p", "r", "e", "k">>]
HeavyAtLimit ==
    [datum    |-> [year |-> 2025, month |-> 6, day |-> 15, tick |-> 1],
     type_raw |-> <<"G", "e", "s", "p", "r", "e", "k">>]
HeavyPastLightLimit ==
    [datum    |-> [year |-> 2026, month |-> 3, day |-> 17, tick |-> 1],
     type_raw |-> <<"A", "f", "s", "p", "r", "a", "a", "k">>]
\* in the future, and kept by _fix_date since its day is past 12
LightAhead ==
    [datum    |-> [year |-> 2026, month |-> 7, day |-> 13, tick |-> 0],
     type_raw |-> <<"G", "e", "m", "a", "i", "l", "d">>]

Events ==
    { LightInside, LightAtLimit, HeavyInside, HeavyAtLimit,
      HeavyPastLightLimit, LightAhead }

\* most events in one history
MaxEvents == 2

AcmeKey == <<"a", "c", "m", "e">>
AcmeBvKey == <<"a", "c", "m", "e", " ", "b", "v">>

\* the keys of a history, in insertion order
KeyLists ==
    { << >>, << AcmeKey >>, << AcmeBvKey >>, << AcmeKey, AcmeBvKey >>,
      << AcmeBvKey, AcmeKey >> }

EventLists == UNION { [1..n -> Events] : n \in 1..MaxEvents }

RECURSIVE TotalLen(_, _)
TotalLen(lists, k) ==
    IF k > Len(lists) THEN 0 ELSE Len(lists[k]) + TotalLen(lists, k + 1)

\* the histories load_recent_contacts can return: each key with a list of
\* at least one event
Histories ==
    UNION { { [recent_contacts |-> [k \in 1..Len(keys) |->
                                       [key |-> keys[k], rows |-> k]],
               lists           |-> lists] :
                lists \in { l \in [1..Len(keys) -> EventLists] :
                              TotalLen(l, 1) <= MaxEvents } } :
            keys \in KeyLists }

AcmeB == <<" ", "A", "C", "M", "E", " ", "B">>
Acm == <<"a", "c", "m">>

RecentCompanies == { Acme, AcmeB, Acm, << >> }

RecentInputs ==
    { [fn |-> "history", company |-> company,
       recent_contacts |-> h.recent_contacts, lists |-> h.lists,
       now |-> RecentNow] :
        company \in RecentCompanies, h \in Histories }

InitRecent ==
    /\ HarnessIdle
    /\ probe \in RecentInputs

CallIsRecentContact ==
    /\ probe.fn = "history"
    /\ LET call == is_recent_contact(probe.company, probe.recent_contacts,
                                     probe.lists, probe.now)
       IN  probe' = [fn |-> "is_recent_contact", company |-> probe.company,
                     recent_contacts |-> probe.recent_contacts,
                     lists |-> call.lists, now |-> probe.now,
                     matches |-> Matches(probe.company, probe.recent_contacts,
                                         probe.lists),
                     blocked |-> call.blocked, reason |-> call.reason]
    /\ UNCHANGED program_vars

\* the dicts equal to recent_contacts: the same items in any insertion order
EqualDicts(recent_contacts) ==
    { [k \in 1..Len(recent_contacts) |-> recent_contacts[order[k]]] :
        order \in Permutations(1..Len(recent_contacts)) }

\* a second call with the same company and now, and an equal history
CallIsRecentContactAgain ==
    /\ probe.fn = "is_recent_contact"
    /\ \E history \in EqualDicts(probe.recent_contacts) :
          LET call == is_recent_contact(probe.company, history, probe.lists,
                                        probe.now)
          IN  probe' = [fn |-> "is_recent_contact twice",
                        company |-> probe.company,
                        recent_contacts |-> probe.recent_contacts,
                        lists |-> call.lists, now |-> probe.now,
                        blocked |-> probe.blocked, reason |-> probe.reason,
                        again_blocked |-> call.blocked,
                        again_reason |-> call.reason]
    /\ UNCHANGED program_vars

\* one more contact moment is loaded into the history, and the call is made
\* again with the same company and now
CallAfterAppend ==
    /\ probe.fn = "is_recent_contact"
    /\ \E key \in { AcmeKey, AcmeBvKey }, event \in Events :
          LET later == AppendContact(probe.recent_contacts, probe.lists, key,
                                     event)
              call  == is_recent_contact(probe.company, later.recent_contacts,
                                         later.lists, probe.now)
          IN  probe' = [fn |-> "is_recent_contact after append",
                        company |-> probe.company,
                        recent_contacts |-> later.recent_contacts,
                        lists |-> call.lists, now |-> probe.now,
                        blocked |-> probe.blocked, reason |-> probe.reason,
                        added_key |-> key, added |-> event,
                        later_blocked |-> call.blocked,
                        later_reason |-> call.reason]
    /\ UNCHANGED program_vars

CallGetBlockedCompanies ==
    /\ probe.fn = "history"
    /\ LET call == get_blocked_companies(probe.recent_contacts, probe.lists,
                                         probe.now)
       IN  probe' = [fn |-> "get_blocked_companies",
                     recent_contacts |-> probe.recent_contacts,
                     lists |-> call.lists, now |-> probe.now,
                     blocked_companies |-> call.blocked]
    /\ UNCHANGED program_vars

NextRecent ==
    \/ CallIsRecentContact
    \/ CallIsRecentContactAgain
    \/ CallAfterAppend
    \/ CallGetBlockedCompanies

SpecRecent == InitRecent /\ [][NextRecent]_vars

(***************************************************************************)
(* SpecCore: the matching core, is_do_not_contact as well as               *)
(* is_recent_contact and get_blocked_companies, each called on one input   *)
(* and is_do_not_contact and is_recent_contact a second time on the same.  *)
(***************************************************************************)
InitCore == InitMatch \/ InitRecent

\* a second call with the same company and the same registry
CallIsDoNotContactAgain ==
    /\ probe.fn = "is_do_not_contact"
    /\ \E r \in is_do_not_contact(probe.company, probe.registry) :
          probe' = [fn |-> "is_do_not_contact twice",
                    company |-> probe.company, registry |-> probe.registry,
                    blocked |-> probe.blocked, matched |-> probe.matched,
                    again_blocked |-> r[1], again_matched |-> r[2]]
    /\ UNCHANGED program_vars

NextCore ==
    \/ CallIsDoNotContact
    \/ CallIsDoNotContactAgain
    \/ CallIsRecentContact
    \/ CallIsRecentContactAgain
    \/ CallGetBlockedCompanies

SpecCore == InitCore /\ [][NextCore]_vars

(***************************************************************************)
(* SpecWriters: the status writers of sheets.py on a sheet of two rows,    *)
(* the first with any cell contents, written at either row.                *)
(***************************************************************************)
Clock == { PipelineNow, "05-11-2026 10:30" }

WriterRows ==
    [company : { Acme }, email : { << "a", "@", "x" >> },
     enriched : { ENRICHED_YES }, ai_status : { AI_PENDING, AI_RUNNING },
     mail_status : { MAIL_PENDING, MAIL_SENT }, datum_mail : { "", PipelineNow },
     followup_datum : { "", "11-11-2026" }, reactie : { "", "Ja" },
     opmerking : { << >>, << "o", "k" >> }, meta : { FilledMeta },
     ai_bericht : { "", "msg" },
     contact_id : { "c1" }]

OtherRow ==
    [company |-> Bar, email |-> << "b", "@", "x" >>, enriched |-> ENRICHED_YES,
     ai_status |-> AI_DONE, mail_status |-> MAIL_PENDING, datum_mail |-> "",
     followup_datum |-> "12-11-2026", reactie |-> "Nee",
     opmerking |-> << "b", "e", "l" >>, meta |-> FilledMeta,
     ai_bericht |-> "msg",
     contact_id |-> "c2"]

MailStatuses ==
    { MAIL_PENDING, MAIL_DRY_RUN, MAIL_SENT, MAIL_ERROR, MAIL_DNC, MAIL_SUPPRESSED }

ErrorTexts == { << >>, SendError }

InitWriters ==
    /\ HarnessIdle
    /\ probe \in { [fn |-> "sheet", sheet |-> << row, OtherRow >>] :
                     row \in WriterRows }

CallSetMailStatus ==
    /\ probe.fn = "sheet"
    /\ \E row_number \in DATA_START_ROW..(DATA_START_ROW + 1),
          status \in MailStatuses, text \in ErrorTexts, now \in Clock :
          probe' = [fn |-> "set_mail_status", before |-> probe.sheet,
                    row_number |-> row_number, status |-> status,
                    error |-> text,
                    sheet |-> set_mail_status(probe.sheet, row_number, status,
                                              text, now)]
    /\ UNCHANGED program_vars

CallSetAiError ==
    /\ probe.fn = "sheet"
    /\ \E row_number \in DATA_START_ROW..(DATA_START_ROW + 1),
          error_msg \in ErrorTexts :
          probe' = [fn |-> "set_ai_error", before |-> probe.sheet,
                    row_number |-> row_number, error |-> error_msg,
                    sheet |-> set_ai_error(probe.sheet, row_number, error_msg)]
    /\ UNCHANGED program_vars

CallSetAiResult ==
    /\ probe.fn = "sheet"
    /\ \E row_number \in DATA_START_ROW..(DATA_START_ROW + 1),
          bericht \in { "", "nieuw" }, dry \in BOOLEAN :
          probe' = [fn |-> "set_ai_result", before |-> probe.sheet,
                    row_number |-> row_number, bericht |-> bericht,
                    dry_run |-> dry,
                    sheet |-> set_ai_result(probe.sheet, row_number, bericht, dry)]
    /\ UNCHANGED program_vars

NextWriters == CallSetMailStatus \/ CallSetAiError \/ CallSetAiResult

SpecWriters == InitWriters /\ [][NextWriters]_vars

(***************************************************************************)
(* SpecAi: step_ai_generate (main.py) run from the menu on a sheet of       *)
(* leads, any number of times.  `rows` holds the rows still to do and       *)
(* `dry_run` the answer to the dry-run prompt.                              *)
(***************************************************************************)
MaxAiRows == 2

BlankMeta == [FilledMeta EXCEPT !.consultant = ""]

AiRows ==
    [company : { Acme }, email : { << "a", "@", "x" >>, << >> },
     enriched : { ENRICHED_YES },
     ai_status : { AI_PENDING, AI_DRY_RUN, AI_ERROR, AI_DONE },
     mail_status : { MAIL_PENDING, MAIL_DNC }, datum_mail : { "" },
     followup_datum : { "" }, reactie : { "" }, opmerking : { << >> },
     meta : { FilledMeta, BlankMeta }, ai_bericht : { "" },
     contact_id : { "c1" }]

AiSheets == UNION { [1..n -> AiRows] : n \in 0..MaxAiRows }

GenerateError == << "a", "p", "i" >>

InitAi ==
    /\ pc = "menu"
    /\ cfg = [dnc_path |-> DefaultDncPath, dry_run |-> DefaultDryRun,
               max_emails |-> DefaultMaxEmails]
    /\ dnc_source = NoFile
    /\ sheet \in AiSheets
    /\ page_state = 1
    /\ dnc_set = { }
    /\ suppressed = { }
    /\ contacted_companies = { }
    /\ sendable = << >>
    /\ rows = << >>
    /\ skip = NoSkips
    /\ dry_run = TRUE
    /\ step = ""
    /\ error = NoError
    /\ send_calls = << >>
    /\ status_writes = { }
    /\ send_log = << >>
    /\ delivered = << >>
    /\ appended = 0
    /\ probe = NoProbe

ai_idle ==
    << cfg, dnc_source, page_state, dnc_set, suppressed, contacted_companies,
       sendable, skip, error, send_calls, status_writes, send_log, delivered,
       appended, probe >>

\* lines 505-533: the rows are read, the number typed (0 for Enter) and the
\* dry-run question answered
AiStart(typed, n, dry) ==
    LET found == get_rows_for_ai(sheet)
        limit == IF typed THEN n ELSE Len(found)
    IN
    /\ pc = "menu"
    /\ step' = "ai"
    /\ IF found = << >>
       THEN /\ pc' = "menu"
            /\ rows' = << >>
            /\ UNCHANGED dry_run
       ELSE /\ pc' = "ai_loop"
            /\ rows' = SubSeq(found, 1, Min(limit, Len(found)))
            /\ dry_run' = dry
    /\ UNCHANGED << sheet, ai_idle >>

\* line 557: the next row is set to RUNNING
AiMarkRunning ==
    /\ pc = "ai_loop"
    /\ rows # << >>
    /\ sheet' = set_ai_status(sheet, Head(rows).row_number, AI_RUNNING)
    /\ pc' = "ai_generate"
    /\ UNCHANGED << rows, dry_run, step, ai_idle >>

\* lines 559-592: the message is made and written, or an Exception is caught
\* and the error written
AiGenerate(raises) ==
    /\ pc = "ai_generate"
    /\ sheet' = IF raises
                THEN set_ai_error(sheet, Head(rows).row_number, GenerateError)
                ELSE set_ai_result(sheet, Head(rows).row_number, "msg", dry_run)
    /\ rows' = Tail(rows)
    /\ pc' = "ai_loop"
    /\ UNCHANGED << dry_run, step, ai_idle >>

\* lines 596-601: the loop is through
AiDone ==
    /\ pc = "ai_loop"
    /\ rows = << >>
    /\ pc' = "menu"
    /\ UNCHANGED << sheet, rows, dry_run, step, ai_idle >>

\* KeyboardInterrupt while the step runs: it is no Exception, so line 589 does
\* not catch it, and main (943-946) returns to the menu
AiInterrupt ==
    /\ pc \in { "ai_loop", "ai_generate" }
    /\ pc' = "menu"
    /\ rows' = << >>
    /\ UNCHANGED << sheet, dry_run, step, ai_idle >>

NextAi ==
    \/ \E typed \in BOOLEAN, n \in 0..MaxAiRows, dry \in BOOLEAN :
          /\ ~typed => n = 0
          /\ AiStart(typed, n, dry)
    \/ AiMarkRunning
    \/ \E raises \in BOOLEAN : AiGenerate(raises)
    \/ AiDone
    \/ AiInterrupt

\* the step is not held up forever: whatever can happen next, does
SpecAi == InitAi /\ [][NextAi]_vars /\ WF_vars(NextAi)

(***************************************************************************)
(* SpecSend: one call of send_email (src/Python/src/gmail_send.py).  The   *)
(* probe is the state of the call: where it is (at), the attempt number of *)
(* the for loop, how many SMTP connections it has opened (attempts), how   *)
(* many times the whole message went over a connection (handed), and how   *)
(* the call ended.  Every exception of smtplib is an OSError.              *)
(***************************************************************************)
MaxRetries == 3

SendInputs ==
    [fn : { "send_email" }, at : { "called" },
     sender_email : { "", "me@x" }, app_password : { "", "pw" },
     max_retries : 1..MaxRetries, attempt : { 0 }, attempts : { 0 },
     handed : { 0 }, accepted : { 0 }, result : { "" }]

InitSend ==
    /\ HarnessIdle
    /\ probe \in SendInputs

\* lines 218-224, and the first pass of line 286
SendChecks ==
    /\ probe.fn = "send_email"
    /\ probe.at = "called"
    /\ probe' = IF probe.sender_email = "" \/ probe.app_password = ""
                THEN [probe EXCEPT !.at = "raised", !.result = "ValueError"]
                ELSE [probe EXCEPT !.at = "connect", !.attempt = 1]
    /\ UNCHANGED program_vars

\* lines 288-291: smtplib.SMTP(...), ehlo, starttls, ehlo
SendConnect(ok) ==
    /\ probe.fn = "send_email"
    /\ probe.at = "connect"
    /\ probe' = [probe EXCEPT !.attempts = @ + 1,
                              !.at = IF ok THEN "login" ELSE "except"]
    /\ UNCHANGED program_vars

\* line 292: server.login; reply is what the server answers
SendLogin(reply) ==
    /\ probe.fn = "send_email"
    /\ probe.at = "login"
    /\ probe' = CASE reply = "ok" -> [probe EXCEPT !.at = "sendmail"]
                  [] reply = "auth" ->
                        \* lines 296-301
                        [probe EXCEPT !.at = "raised",
                                      !.result = "SMTPAuthenticationError"]
                  [] OTHER -> [probe EXCEPT !.at = "except"]
    /\ UNCHANGED program_vars

\* line 293: server.sendmail.  "accepted": the server took the message and
\* said so; "reply lost": the message went over in full and the connection
\* failed before the reply was read (SMTPServerDisconnected); "dropped": the
\* connection failed before the message went over
SendSendmail(reply) ==
    /\ probe.fn = "send_email"
    /\ probe.at = "sendmail"
    /\ probe' = CASE reply = "accepted" ->
                        [probe EXCEPT !.handed = @ + 1, !.accepted = @ + 1,
                                      !.at = "quit"]
                  [] reply = "reply lost" ->
                        [probe EXCEPT !.handed = @ + 1, !.at = "except"]
                  [] OTHER -> [probe EXCEPT !.at = "except"]
    /\ UNCHANGED program_vars

\* the end of the with block (SMTP.__exit__ sends QUIT): a reply other than
\* 221 raises SMTPResponseException; otherwise lines 294-295 return the id
SendQuit(ok) ==
    /\ probe.fn = "send_email"
    /\ probe.at = "quit"
    /\ probe' = IF ok
                THEN [probe EXCEPT !.at = "returned", !.result = "message id"]
                ELSE [probe EXCEPT !.at = "except"]
    /\ UNCHANGED program_vars

\* lines 302-308: the handler of a connection failure
SendRetry ==
    /\ probe.fn = "send_email"
    /\ probe.at = "except"
    /\ probe' = IF probe.attempt < probe.max_retries
                THEN [probe EXCEPT !.at = "connect", !.attempt = @ + 1]
                ELSE [probe EXCEPT !.at = "raised", !.result = "OSError"]
    /\ UNCHANGED program_vars

NextSend ==
    \/ SendChecks
    \/ \E ok \in BOOLEAN : SendConnect(ok)
    \/ \E reply \in { "ok", "auth", "dropped" } : SendLogin(reply)
    \/ \E reply \in { "accepted", "reply lost", "dropped" } : SendSendmail(reply)
    \/ \E ok \in BOOLEAN : SendQuit(ok)
    \/ SendRetry

SpecSend == InitSend /\ [][NextSend]_vars

(***************************************************************************)
(* cleanup_sheet (src/Python/src/sheets.py) and SpecCleanup: the call on a *)
(* sheet of up to MaxCleanupRows rows of every kind, with the 'DNC         *)
(* Archief' worksheet missing or present.  The archive is the sequence of  *)
(* its data rows; its header row is left out.                              *)
(***************************************************************************)
MaxCleanupRows == 3

NoArchive == "WorksheetNotFound"

\* line 352
IsDncRow(row) == row.mail_status = MAIL_DNC

\* line 354, the elif: reached only by a row that is not a DNC row
IsDeleteRow(row) ==
    /\ ~IsDncRow(row)
    /\ row.enriched = ENRICHED_YES
    /\ row.email = << >>

\* lines 344-355
dnc_rows(all_rows) == SelectSeq(all_rows, IsDncRow)

delete_rows(all_rows) == SelectSeq(all_rows, IsDeleteRow)

\* line 359: the cells of a row of get_all_rows, without its row number
ArchiveRow(row) == [col \in DOMAIN row \ { "row_number" } |-> row[col]]

\* sorted(..., key=row_number, reverse=True); the row numbers are distinct
RECURSIVE SortedDescending(_)
SortedDescending(found) ==
    IF found = << >> THEN << >>
    ELSE LET highest == CHOOSE i \in 1..Len(found) :
                            \A j \in 1..Len(found) :
                                found[j].row_number <= found[i].row_number
             others == [k \in 1..(Len(found) - 1) |->
                           IF k < highest THEN found[k] ELSE found[k + 1]]
         IN  << found[highest] >> \o SortedDescending(others)

\* variant of all_to_delete that leaves the rows in the order collected
AllToDeleteAsCollected(all_rows) == dnc_rows(all_rows) \o delete_rows(all_rows)

\* line 366
all_to_delete(all_rows) ==
    SortedDescending(dnc_rows(all_rows) \o delete_rows(all_rows))

\* one deleteDimension request (lines 372-381): the grid row with 0-based
\* index idx goes and the rows below it move up; grid row 1 is the header
DeleteDimension(sh, idx) ==
    LET i == idx + 1 - (DATA_START_ROW - 1)
    IN  IF i \in 1..Len(sh)
        THEN [k \in 1..(Len(sh) - 1) |-> IF k < i THEN sh[k] ELSE sh[k + 1]]
        ELSE sh

\* line 382: the requests are applied one after the other
RECURSIVE batch_update(_, _)
batch_update(sh, requests) ==
    IF requests = << >> THEN sh
    ELSE batch_update(DeleteDimension(sh, Head(requests)), Tail(requests))

\* lines 357-360: _get_or_create_archive and append_rows
AppendToArchive(archive, moved) ==
    (IF archive = NoArchive THEN << >> ELSE archive)
        \o [k \in 1..Len(moved) |-> ArchiveRow(moved[k])]

cleanup_sheet(sh, archive) ==
    LET all_rows == get_all_rows(sh)
        moved    == dnc_rows(all_rows)
        gone     == all_to_delete(all_rows)
    IN  [sheet   |-> batch_update(sh, [k \in 1..Len(gone) |->
                                          gone[k].row_number - 1]),
         archive |-> IF moved = << >> THEN archive
                     ELSE AppendToArchive(archive, moved),
         moved_dnc        |-> Len(moved),
         deleted_no_email |-> Len(delete_rows(all_rows))]

CleanupIds == << "c1", "c2", "c3" >>

CleanupRows ==
    [company : { Acme },
     email : { << >>, << " " >>, << "a", "@", "x" >> },
     enriched : { ENRICHED_YES, ENRICHED_NO }, ai_status : { AI_PENDING },
     mail_status : { MAIL_PENDING, MAIL_DRY_RUN, MAIL_DNC },
     datum_mail : { "" }, followup_datum : { "" }, reactie : { "" },
     opmerking : { << >> }, meta : { FilledMeta }, ai_bericht : { "" },
     contact_id : { "" }]

CleanupSheets ==
    UNION { { [i \in 1..n |-> [cells[i] EXCEPT !.contact_id = CleanupIds[i]]] :
                cells \in [1..n -> CleanupRows] } : n \in 0..MaxCleanupRows }

Archives ==
    { NoArchive, << ArchiveRow([OtherRow EXCEPT !.mail_status = MAIL_DNC]) >> }

InitCleanup ==
    /\ HarnessIdle
    /\ probe \in [fn : { "sheet" }, sheet : CleanupSheets,
                  archive : Archives]

\* cleanup_sheet on the sheet as it is, the first time or again
CallCleanupSheet ==
    /\ probe.fn \in { "sheet", "cleanup_sheet" }
    /\ LET result == cleanup_sheet(probe.sheet, probe.archive)
       IN  probe' = [fn |-> "cleanup_sheet",
                     before |-> probe.sheet,
                     archive_before |-> probe.archive,
                     sheet |-> result.sheet,
                     archive |-> result.archive,
                     moved_dnc |-> result.moved_dnc,
                     deleted_no_email |-> result.deleted_no_email]
    /\ UNCHANGED program_vars

NextCleanup == CallCleanupSheet

SpecCleanup == InitCleanup /\ [][NextCleanup]_vars

(***************************************************************************)
(* Properties.                                                             *)
(***************************************************************************)
\* whether one of the three rules of the filter loop blocks the row, against
\* the lists step_send_mail loaded when the run started
BlockedByAnyRule(row) ==
    \/ Blocked(row.company, dnc_set)
    \/ row.email \in suppressed
    \/ Lower(row.company) \in contacted_companies

\* the row of the sheet set_mail_status(row_number, ...) writes to
RowAt(row_number) == get_all_rows(sheet)[row_number - DATA_START_ROW + 1]

\* C1: in every run of step_send_mail, send_email is never called and no SENT
\* status is written for a row that is blocked by is_do_not_contact against
\* the loaded DNC registry, whose email is in the suppressed set, or whose
\* lowercased company is in the contacted-company set, as loaded when the
\* run started.
C1_BlockedLeadNeverSent ==
    /\ \A i \in 1..Len(send_calls) : ~BlockedByAnyRule(send_calls[i])
    /\ \A w \in status_writes :
          w[2] = MAIL_SENT => ~BlockedByAnyRule(RowAt(w[1]))

\* a real run that marked one row DNC in its filter loop and has called
\* send_email (and written SENT) for another
C1_Witness ==
    /\ pc = "mail_loop"
    /\ ~dry_run
    /\ \E w \in status_writes : w[2] = MAIL_DNC
    /\ \E w \in status_writes : w[2] = MAIL_SENT
    /\ send_calls # << >>

\* the name mails to one company are compared by: stripped and lowercased
CompanyKey(company) == Lower(Strip(company))

\* C2: over any sequence of real runs of step_send_mail at most one mail is
\* sent per company name, compared stripped and lowercased, also when several
\* eligible rows of one not-yet-contacted company are in the same batch.
C2_OneMailPerCompany ==
    \A i, j \in 1..Len(delivered) :
        CompanyKey(delivered[i].company) = CompanyKey(delivered[j].company)
            => i = j

\* C3: when the DNC file does not exist, load_do_not_contact raises
\* FileNotFoundError naming the expected path, and a run of step_send_mail
\* ends with that error before any send_email call, mail-status write or
\* send-log record.
C3_MissingDncStopsSendMail ==
    ~dnc_source.exists =>
        /\ load_do_not_contact(cfg.dnc_path, dnc_source)
              = [raised |-> "FileNotFoundError", path |-> cfg.dnc_path]
        /\ step = "mail" =>
              /\ pc \in { "menu", "exit" }
              /\ send_calls = << >>
              /\ status_writes = { }
              /\ send_log = << >>
              /\ get_rows_for_mail(sheet) # << >> =>
                    error = [raised |-> "FileNotFoundError", path |-> cfg.dnc_path]

\* step_send_mail has run on a sheet with mailable rows and no DNC file
C3_Witness ==
    /\ ~dnc_source.exists
    /\ step = "mail"
    /\ get_rows_for_mail(sheet) # << >>
    /\ error = [raised |-> "FileNotFoundError", path |-> cfg.dnc_path]
    /\ send_calls = << >>

\* C4: the system never runs without the DNC registry: when the DNC source
\* is missing main does not reach the menu loop, and step_lusha_search
\* neither appends leads to the sheet nor advances the saved page state.
C4_NeverRunsWithoutDnc ==
    ~dnc_source.exists =>
        /\ pc \notin { "menu", "mail_confirm", "mail_loop" }
        /\ appended = 0
        /\ page_state = 1

\* C5: load_do_not_contact either raises or returns a set with at least one
\* normalized token.
C5_RegistryNeverEmpty ==
    probe.fn = "load_do_not_contact" =>
        \/ probe.outcome.raised # ""
        \/ probe.outcome.dnc_set # { }

\* C6 as stated: load_do_not_contact raises whenever the 'Bedrijf' column is
\* absent from the source, CSV as well as Excel.
C6_RaisesWithoutBedrijf ==
    (/\ probe.fn = "load_do_not_contact"
     /\ probe.source.exists
     /\ ~HasColumn(probe.source, Bedrijf))
        => probe.outcome.raised # ""

\* C6, amended: without a 'Bedrijf' column load_do_not_contact raises
\* ValueError for an Excel source, and for a CSV source returns the registry
\* built from the first column (pandas raises EmptyDataError for a CSV file
\* without any column); with the column it always reads that column.
C6_ColumnChoice ==
    (probe.fn = "load_do_not_contact" /\ probe.source.exists) =>
        IF HasColumn(probe.source, Bedrijf)
        THEN probe.outcome =
                [raised |-> "",
                 dnc_set |-> DncSetOf(probe.source.cells[
                                 ColumnIndex(probe.source, Bedrijf)])]
        ELSE IF IsCsvPath(probe.path)
        THEN IF probe.source.columns = << >>
             THEN probe.outcome = [raised |-> "EmptyDataError", path |-> probe.path]
             ELSE probe.outcome =
                     [raised |-> "", dnc_set |-> DncSetOf(probe.source.cells[1])]
        ELSE probe.outcome = [raised |-> "ValueError", path |-> probe.path]

\* a CSV file without the column whose first column gave a registry
C6_Witness ==
    /\ probe.fn = "load_do_not_contact"
    /\ IsCsvPath(probe.path)
    /\ probe.source.exists
    /\ ~HasColumn(probe.source, Bedrijf)
    /\ probe.outcome.raised = ""
    /\ probe.outcome.dnc_set # { }

\* C7: _normalize_company(_normalize_company(s)) = _normalize_company(s) for
\* every string s.
C7_NormalizeIdempotent ==
    probe.fn = "_normalize_company twice" => probe.again = probe.out

\* C8 as stated: for every non-blank raw, _extract_variants(raw) is non-empty
\* and contains _normalize_company(raw).
C8_VariantsNonEmpty ==
    (probe.fn = "_extract_variants" /\ ~IsBlank(probe.raw)) =>
        /\ probe.variants # { }
        /\ _normalize_company(probe.raw) \in probe.variants

\* C8, amended: _extract_variants(raw) never contains the empty string, and
\* contains _normalize_company(raw) whenever that is not the empty string.
C8_VariantsHoldNormalization ==
    probe.fn = "_extract_variants" =>
        /\ << >> \notin probe.variants
        /\ _normalize_company(probe.raw) # << >> =>
              _normalize_company(probe.raw) \in probe.variants

\* a name that is a legal suffix only: non-blank, and without variants
C8_Witness ==
    /\ probe.fn = "_extract_variants"
    /\ probe.raw = OnlyBV
    /\ ~IsBlank(probe.raw)
    /\ probe.variants = { }

\* C9: for a non-blank candidate, if some variant of it is in the registry
\* the result is (True, t) with t both a variant of the candidate and an
\* entry of the registry; the registry {"fritom"} blocks "Melkweg|Fritom"
\* with "fritom" as the matched token.
C9_ExactPass ==
    probe.fn = "is_do_not_contact" =>
        /\ (/\ ~IsBlank(probe.company)
            /\ _extract_variants(probe.company) \cap probe.registry # { })
              => /\ probe.blocked
                 /\ probe.matched \in _extract_variants(probe.company)
                 /\ probe.matched \in probe.registry
        /\ (probe.company = MelkwegFritom /\ probe.registry = { Lower(Fritom) })
              => probe.blocked /\ probe.matched = Lower(Fritom)

\* "Melkweg|Fritom" checked against the registry {"fritom"}
C9_Witness ==
    /\ probe.fn = "is_do_not_contact"
    /\ probe.company = MelkwegFritom
    /\ probe.registry = { Lower(Fritom) }
    /\ probe.blocked
    /\ probe.matched = Lower(Fritom)

\* C10 as stated: with the registry built from "Royal FrieslandCampina",
\* is_do_not_contact("FrieslandCampina Nederland", registry) reports blocked.
C10_PartialOverlapBlocked ==
    (/\ probe.fn = "is_do_not_contact"
     /\ probe.company = FrieslandCampinaNederland
     /\ probe.registry = _extract_variants(RoyalFrieslandCampina))
        => probe.blocked

\* C10, amended: with the registry built from "Royal FrieslandCampina",
\* "FrieslandCampina Nederland" is not blocked, since neither normalized name
\* contains the other; "Royal FrieslandCampina Nederland", which contains
\* the entry, is blocked with the entry as matched token.
C10_SubstringPassIsContainment ==
    (/\ probe.fn = "is_do_not_contact"
     /\ probe.registry = _extract_variants(RoyalFrieslandCampina))
        => /\ probe.company = FrieslandCampinaNederland
              => ~probe.blocked /\ probe.matched = << >>
           /\ probe.company = RoyalFrieslandCampinaNederland
              => /\ probe.blocked
                 /\ probe.matched = Lower(RoyalFrieslandCampina)

\* "FrieslandCampina Nederland" checked against that registry
C10_Witness ==
    /\ probe.fn = "is_do_not_contact"
    /\ probe.company = FrieslandCampinaNederland
    /\ probe.registry = { Lower(RoyalFrieslandCampina) }
    /\ ~probe.blocked

\* C11: a registry entry that is a stop word never blocks through the
\* substring pass: a stop word returned as matched token is a variant of the
\* candidate, against a registry of stop words only a candidate is blocked
\* exactly when one of its variants is an entry, and "Some Logistics Company"
\* against {"logistics"} gives (False, "").
C11_StopWordGuard ==
    probe.fn = "is_do_not_contact" =>
        /\ (probe.blocked /\ probe.matched \in _STOPWORDS)
              => probe.matched \in _extract_variants(probe.company)
        /\ probe.registry \subseteq _STOPWORDS
              => (probe.blocked <=>
                    /\ ~IsBlank(probe.company)
                    /\ _extract_variants(probe.company) \cap probe.registry # { })
        /\ (probe.company = SomeLogisticsCompany
               /\ probe.registry = { Lower(Logistics) })
              => ~probe.blocked /\ probe.matched = << >>

\* "Some Logistics Company" checked against the registry {"logistics"}
C11_Witness ==
    /\ probe.fn = "is_do_not_contact"
    /\ probe.company = SomeLogisticsCompany
    /\ probe.registry = { Lower(Logistics) }
    /\ Len(Lower(Logistics)) >= MinSubstringLen
    /\ IsSubstring(Lower(Logistics), _normalize_company(probe.company))
    /\ ~probe.blocked

\* C12: a registry entry shorter than 8 characters never blocks through the
\* substring pass: whenever is_do_not_contact returns (True, t) with
\* len(t) < 8, t is a variant of the candidate.
C12_ShortTokenGuard ==
    (/\ probe.fn = "is_do_not_contact"
     /\ probe.blocked
     /\ Len(probe.matched) < 8)
        => probe.matched \in _extract_variants(probe.company)

\* "Melkweg Fritom", which contains the 6-character entry "fritom" without
\* having it as a variant, checked against {"fritom"}: not blocked
C12_Witness ==
    /\ probe.fn = "is_do_not_contact"
    /\ probe.company = MelkwegFritomUnsplit
    /\ probe.registry = { Lower(Fritom) }
    /\ IsSubstring(Lower(Fritom), _normalize_company(probe.company))
    /\ ~probe.blocked

\* C20: for a non-blank candidate without an exact variant match the result
\* is blocked exactly when some registry entry e of 8 or more characters,
\* not a stop word, is a substring of _normalize_company(candidate) or has
\* it as a substring; the token returned is such an entry, and otherwise
\* the result is (False, "").
C20_SubstringPass ==
    (/\ probe.fn = "is_do_not_contact"
     /\ ~IsBlank(probe.company)
     /\ _extract_variants(probe.company) \cap probe.registry = { })
        => LET norm == _normalize_company(probe.company)
               Hits == { e \in probe.registry :
                           /\ Len(e) >= 8
                           /\ e \notin _STOPWORDS
                           /\ IsSubstring(e, norm) \/ IsSubstring(norm, e) }
           IN  IF Hits # { }
               THEN probe.blocked /\ probe.matched \in Hits
               ELSE ~probe.blocked /\ probe.matched = << >>

\* the candidate "a", no variant of which is an entry, blocked by the entry
\* "royal frieslandcampina" that contains it
C20_Witness ==
    /\ probe.fn = "is_do_not_contact"
    /\ probe.company = << "a" >>
    /\ probe.registry = { Lower(RoyalFrieslandCampina) }
    /\ probe.blocked
    /\ probe.matched = Lower(RoyalFrieslandCampina)

\* the rows of the filter loop for which `test` holds
RowsWith(test(_)) == { k \in 1..Len(rows) : test(rows[k]) }

DncBlocked(row) == Blocked(row.company, dnc_set)
SuppressedOnly(row) == ~DncBlocked(row) /\ row.email \in suppressed
CompanyOnly(row) ==
    /\ ~DncBlocked(row)
    /\ row.email \notin suppressed
    /\ Lower(row.company) \in contacted_companies

\* C17: the filter loop of step_send_mail classifies in the order DNC,
\* suppressed email, contacted company: a DNC-blocked row is recorded as DNC
\* even when its email is suppressed or its company contacted, a row not
\* DNC-blocked whose email is suppressed is recorded as suppressed even when
\* its company is contacted, and each row is counted under exactly one
\* reason.
C17_ClassificationOrder ==
    step = "mail" =>
        /\ \A k \in 1..Len(rows) :
              LET row == rows[k]
                  dnc_written == << row.row_number, MAIL_DNC >> \in status_writes
                  sup_written ==
                      << row.row_number, MAIL_SUPPRESSED >> \in status_writes
              IN  /\ DncBlocked(row) => dnc_written /\ ~sup_written
                  /\ SuppressedOnly(row) => sup_written /\ ~dnc_written
                  /\ ~DncBlocked(row) /\ row.email \notin suppressed
                        => ~dnc_written /\ ~sup_written
        /\ skip.dnc = Cardinality(RowsWith(DncBlocked))
        /\ skip.sup = Cardinality(RowsWith(SuppressedOnly))
        /\ skip.company = Cardinality(RowsWith(CompanyOnly))
        /\ pc # "mail_loop"
              => skip.dnc + skip.sup + skip.company + Len(sendable) = Len(rows)

\* the filter loop has met a row that is DNC-blocked and whose email is
\* suppressed as well, and counted it as DNC
C17_Witness ==
    /\ step = "mail"
    /\ \E k \in 1..Len(rows) :
          /\ DncBlocked(rows[k])
          /\ rows[k].email \in suppressed
          /\ << rows[k].row_number, MAIL_DNC >> \in status_writes
    /\ skip = [dnc |-> 1, sup |-> 0, company |-> 0]

\* the names the sub-types of a label stand for, empty parts and '#ref!'
\* discarded
SubTypeNames(parts) ==
    { parts[k].clean : k \in 1..Len(parts) } \ { << >>, RefError }

GemaildAndGesprek ==
    <<"G", "e", "m", "a", "i", "l", "d", " ", "(", "2", ")", ";", " ",
      "G", "e", "s", "p", "r", "e", "k">>

\* C15: a type label is light if and only if, after splitting on ';',
\* removing parenthetical annotations, lowercasing, trimming and discarding
\* empty parts and '#ref!', the resulting set is non-empty and each element
\* is one of gemaild, gebeld, gemailed; "Gemaild (2); Gesprek" and a label
\* with an empty resulting set are heavy.
C15_LightContact ==
    /\ probe.fn \in { "_normalize_type", "_is_light_contact" }
          => probe.types = SubTypeNames(probe.parts)
    /\ probe.fn = "_is_light_contact" =>
          /\ probe.light <=>
                /\ SubTypeNames(probe.parts) # { }
                /\ \A t \in SubTypeNames(probe.parts) :
                      t \in _LIGHT_CONTACT_TYPES
          /\ probe.raw_type = GemaildAndGesprek => ~probe.light
          /\ probe.types = { } => ~probe.light

\* "Gemaild (2); Gesprek" classified: one sub-type is light, the label is not
C15_Witness ==
    /\ probe.fn = "_is_light_contact"
    /\ probe.raw_type = GemaildAndGesprek
    /\ probe.types \cap _LIGHT_CONTACT_TYPES # { }
    /\ ~probe.light

\* a <= b for two datetimes, field by field
NotAfter(a, b) ==
    \/ a.year < b.year
    \/ a.year = b.year /\ a.month < b.month
    \/ a.year = b.year /\ a.month = b.month /\ a.day < b.day
    \/ a.year = b.year /\ a.month = b.month /\ a.day = b.day /\ a.tick <= b.tick

\* C16: _fix_date(d, now) returns d when d <= now; when d > now, day(d) <= 12
\* and d with day and month swapped is <= now, it returns the swapped date;
\* in every other case it returns d; the result is always d or its swap.
C16_FixDate ==
    probe.fn = "_fix_date" =>
        LET d       == probe.datum
            swapped == [year |-> d.year, month |-> d.day, day |-> d.month,
                        tick |-> d.tick]
        IN  /\ NotAfter(d, probe.now) => probe.out = d
            /\ (~NotAfter(d, probe.now) /\ d.day <= 12
                   /\ NotAfter(swapped, probe.now))
                  => probe.out = swapped
            /\ (~NotAfter(d, probe.now)
                   /\ (d.day > 12 \/ ~NotAfter(swapped, probe.now)))
                  => probe.out = d
            /\ probe.out \in { d, swapped }

\* 2 June 2026 read on 10 March 2026: in the future, and 6 February once
\* day and month are swapped
C16_Witness ==
    /\ probe.fn = "_fix_date"
    /\ probe.now = [year |-> 2026, month |-> 3, day |-> 10, tick |-> 1]
    /\ probe.datum = [year |-> 2026, month |-> 6, day |-> 2, tick |-> 0]
    /\ probe.out = [year |-> 2026, month |-> 2, day |-> 6, tick |-> 0]

\* every character of name is whitespace (the empty name included)
OnlyWhitespace(name) == \A i \in 1..Len(name) : name[i] \in Whitespace

\* C13: is_do_not_contact returns (False, "") for every empty or
\* whitespace-only candidate with any registry and for every candidate with
\* the empty registry; is_recent_contact returns (False, "") for every
\* company with the empty history.
C13_DegenerateInputs ==
    /\ probe.fn = "is_do_not_contact"
          => (OnlyWhitespace(probe.company) \/ probe.registry = { }
                 => ~probe.blocked /\ probe.matched = << >>)
    /\ probe.fn = "is_recent_contact"
          => (probe.recent_contacts = << >>
                 => ~probe.blocked /\ probe.reason = << >>)

\* a whitespace-only candidate against a registry with an entry of 8 or more
\* characters, which contains the empty normalization
C13_Witness ==
    /\ probe.fn = "is_do_not_contact"
    /\ probe.company = << " ", " " >>
    /\ _normalize_company(RoyalFrieslandCampina) \in probe.registry
    /\ ~probe.blocked
    /\ probe.matched = << >>

\* the events is_recent_contact matches company with: those of the key equal
\* to the stripped, lowercased company or, when there is none and the key has
\* 4 characters or more, those of every key that contains it or is contained
MatchedEvents(company, recent_contacts, lists) ==
    LET key    == Lower(Strip(company))
        exact  == { k \in 1..Len(recent_contacts) : recent_contacts[k].key = key }
        fuzzy  == { k \in 1..Len(recent_contacts) :
                      /\ Len(key) >= 4
                      /\ \/ IsSubstring(key, recent_contacts[k].key)
                         \/ IsSubstring(recent_contacts[k].key, key) }
        chosen == IF exact # { } THEN exact ELSE fuzzy
    IN  UNION { { lists[recent_contacts[k].rows][i] :
                    i \in 1..Len(lists[recent_contacts[k].rows]) } :
                k \in chosen }

IsLightEvent(event) == _is_light_contact(_normalize_type(event.type_raw))

\* now - date < window, the window being 90 days for a light event and 365
\* days for any other
InsideWindow(event, now) ==
    Instant(now) - Instant(event.datum)
        < (IF IsLightEvent(event) THEN 90 ELSE 365) * TicksPerDay

\* C14: is_recent_contact reports blocked if and only if at least one matched
\* event satisfies now - date < window (90 days for a light event, 365 days
\* otherwise), so an event exactly window days old or older does not block;
\* the reason is that of a matched event inside its window and names the
\* '3 mnd' class when that event is light and the '1 jaar' class when heavy.
C14_CooldownWindow ==
    probe.fn = "is_recent_contact" =>
        LET matched == MatchedEvents(probe.company, probe.recent_contacts,
                                     probe.lists)
        IN  /\ probe.blocked <=> \E e \in matched : InsideWindow(e, probe.now)
            /\ probe.blocked =>
                  \E e \in matched :
                     /\ InsideWindow(e, probe.now)
                     /\ probe.reason[2] = << e.datum.day, e.datum.month,
                                             e.datum.year >>
                     /\ probe.reason[3] = (IF IsLightEvent(e) THEN "3 mnd"
                                           ELSE "1 jaar")
            /\ ~probe.blocked => probe.reason = << >>

\* one light event exactly 90 days old, which does not block, followed by
\* one 89.5 days old, which does
C14_Witness ==
    /\ probe.fn = "is_recent_contact"
    /\ probe.company = Acme
    /\ Len(probe.recent_contacts) = 1
    /\ probe.lists[probe.recent_contacts[1].rows] = << LightAtLimit, LightInside >>
    /\ probe.blocked
    /\ probe.reason[2] = << 18, 3, 2026 >>
    /\ probe.reason[3] = "3 mnd"

\* C18: a call of is_do_not_contact leaves the registry set as it was, and a
\* call of is_recent_contact or get_blocked_companies leaves the history
\* mapping and every event list in it as they were, on the exact-key path
\* and on the fuzzy path.
C18_InputsNotMutated ==
    [][ /\ probe'.fn \in { "is_do_not_contact", "is_do_not_contact twice" }
           => probe'.registry = probe.registry
        /\ probe'.fn \in { "is_recent_contact", "is_recent_contact twice",
                           "get_blocked_companies" }
           => /\ probe'.recent_contacts = probe.recent_contacts
              /\ probe'.lists = probe.lists ]_vars

\* a call on the fuzzy path that gathered the events of two keys and blocked
C18_Witness ==
    /\ probe.fn = "is_recent_contact"
    /\ probe.company = AcmeB
    /\ Len(probe.recent_contacts) = 2
    /\ probe.blocked
    /\ \A k \in 1..2 : probe.lists[probe.recent_contacts[k].rows] # << >>

\* C19: for a fixed candidate and fixed registry contents is_do_not_contact
\* returns the same (blocked, matched token) pair whatever the iteration
\* order of the two sets, and is_recent_contact returns the same
\* (blocked, reason) for a fixed company, history and now.
C19_SameResultTwice ==
    /\ probe.fn = "is_do_not_contact twice"
          => /\ probe.again_blocked = probe.blocked
             /\ probe.again_matched = probe.matched
    /\ probe.fn = "is_recent_contact twice"
          => /\ probe.again_blocked = probe.blocked
             /\ probe.again_reason = probe.reason

\* the number of events stored under the keys with index in chosen
RECURSIVE EventCount(_, _, _)
EventCount(recent_contacts, lists, chosen) ==
    IF chosen = { } THEN 0
    ELSE LET k == CHOOSE k \in chosen : TRUE
         IN  Len(lists[recent_contacts[k].rows])
                 + EventCount(recent_contacts, lists, chosen \ { k })

\* C21: when the stripped, lowercased company is a key of the history, only
\* that key's events are examined; when it is absent and has 4 characters or
\* more, the events of every stored key that contains it or is contained in
\* it are examined; when it is absent and shorter, none is and the result is
\* (False, "").
C21_KeyLookup ==
    probe.fn = "is_recent_contact" =>
        LET key      == Lower(Strip(probe.company))
            rc       == probe.recent_contacts
            exact    == { k \in 1..Len(rc) : rc[k].key = key }
            related  == { k \in 1..Len(rc) :
                            IsSubstring(key, rc[k].key) \/ IsSubstring(rc[k].key, key) }
            examined == { probe.matches[i] : i \in 1..Len(probe.matches) }
        IN  /\ exact # { } =>
                  \A k \in exact : probe.matches = probe.lists[rc[k].rows]
            /\ exact = { } /\ Len(key) >= 4 =>
                  /\ examined = UNION { { probe.lists[rc[k].rows][i] :
                                            i \in 1..Len(probe.lists[rc[k].rows]) } :
                                        k \in related }
                  /\ Len(probe.matches) = EventCount(rc, probe.lists, related)
            /\ exact = { } /\ Len(key) < 4 =>
                  /\ probe.matches = << >>
                  /\ ~probe.blocked
                  /\ probe.reason = << >>

\* 'Acme' with the keys 'acme' and 'acme bv': the event of 'acme bv' is inside
\* its window and is not examined, that of 'acme' is not inside
C21_Witness ==
    /\ probe.fn = "is_recent_contact"
    /\ probe.company = Acme
    /\ Len(probe.recent_contacts) = 2
    /\ \E k \in 1..2 :
          /\ probe.recent_contacts[k].key = AcmeBvKey
          /\ probe.lists[probe.recent_contacts[k].rows] = << LightInside >>
    /\ probe.matches = << LightAtLimit >>
    /\ ~probe.blocked

\* C27: whenever is_recent_contact reports blocked, the days remaining stated
\* in the reason are at least 0 and at most the length of the window of the
\* reported class, 90 for '3 mnd' and 365 for '1 jaar'.
C27_DaysRemainingInWindow ==
    probe.fn = "is_recent_contact" /\ probe.blocked =>
        /\ probe.reason[4] >= 0
        /\ probe.reason[4] <= (IF probe.reason[3] = "3 mnd" THEN 90 ELSE 365)

\* C28: if is_recent_contact(company, history, now) is blocked, it is still
\* blocked after a further contact event, for any company key, date and
\* type, is added to the history.
C28_CooldownMonotone ==
    probe.fn = "is_recent_contact after append" /\ probe.blocked
        => probe.later_blocked

\* C26: is_do_not_contact returns (False, "") for every registry when the
\* candidate is not blank and its normalized name is the empty string.
C26_EmptyNormalizationNotBlocked ==
    (/\ probe.fn = "is_do_not_contact"
     /\ ~OnlyWhitespace(probe.company)
     /\ _normalize_company(probe.company) = << >>)
        => ~probe.blocked /\ probe.matched = << >>

\* the sheet without data row i
WithoutRow(sh, i) == SubSeq(sh, 1, i - 1) \o SubSeq(sh, i + 1, Len(sh))

\* the data rows whose Mail Status is that of a dry run
DryRunRows == { i \in 1..Len(sheet) : sheet[i].mail_status = MAIL_DRY_RUN }

\* a pass of the send loop in dry-run mode calls send_email for no row and
\* sets no row to SENT
DryRunSendsNothing ==
    (pc = "mail_loop" /\ dry_run) =>
        /\ send_calls' = send_calls
        /\ delivered' = delivered
        /\ \A i \in 1..Len(sheet) :
              sheet'[i].mail_status = MAIL_SENT => sheet[i].mail_status = MAIL_SENT

\* C22 as stated: in dry-run mode send_email is never called and no row is
\* set to SENT; a row with the dry-run mail status is returned again by
\* get_rows_for_mail, and its email is not in load_suppressed_emails nor its
\* company in load_contacted_companies.
C22_DryRunEmailNotSuppressed ==
    /\ [][DryRunSendsNothing]_vars
    /\ [](\A i \in DryRunRows :
             /\ \E k \in 1..Len(get_rows_for_mail(sheet)) :
                   get_rows_for_mail(sheet)[k].row_number = i + DATA_START_ROW - 1
             /\ get_all_rows(sheet)[i].email \notin load_suppressed_emails(sheet)
             /\ CompanyKey(get_all_rows(sheet)[i].company)
                   \notin load_contacted_companies(sheet))

\* C22: in dry-run mode send_email is never called and no row is set to SENT;
\* a row with the dry-run mail status is returned again by get_rows_for_mail,
\* and the row adds neither its email to load_suppressed_emails nor its
\* company to load_contacted_companies: both sets are what they are without
\* the row.
C22_DryRunDoesNotConsume ==
    /\ [][DryRunSendsNothing]_vars
    /\ [](\A i \in DryRunRows :
             /\ \E k \in 1..Len(get_rows_for_mail(sheet)) :
                   get_rows_for_mail(sheet)[k].row_number = i + DATA_START_ROW - 1
             /\ load_suppressed_emails(sheet)
                   = load_suppressed_emails(WithoutRow(sheet, i))
             /\ load_contacted_companies(sheet)
                   = load_contacted_companies(WithoutRow(sheet, i)))

\* a dry run has gone over a row and the program is back at the menu
C22_Witness ==
    /\ pc = "menu"
    /\ step = "mail"
    /\ \E i \in DryRunRows :
          \E k \in 1..Len(get_rows_for_mail(sheet)) :
             get_rows_for_mail(sheet)[k].row_number = i + DATA_START_ROW - 1
    /\ delivered = << >>

\* the columns in which the written sheet differs from the sheet before, in
\* the row written; every other row must be as before
ColumnsChanged ==
    LET i == probe.row_number - DATA_START_ROW + 1
    IN  { col \in DOMAIN probe.before[i] : probe.sheet[i][col] # probe.before[i][col] }

OtherRowsKept ==
    /\ Len(probe.sheet) = Len(probe.before)
    /\ \A j \in 1..Len(probe.before) :
          j # probe.row_number - DATA_START_ROW + 1 => probe.sheet[j] = probe.before[j]

\* C23: set_mail_status changes Mail Status and Datum Mail only, and
\* Opmerking only when an error text is given; Follow-up datum, Reactie and
\* every other column stay, and Datum Mail is non-empty exactly when the
\* status written is SENT.  set_ai_error changes AI Status and Opmerking only,
\* never Mail Status; set_ai_result changes AI Status and AI Bericht only.
C23_WritersOwnColumns ==
    LET i == probe.row_number - DATA_START_ROW + 1
    IN  /\ probe.fn = "set_mail_status" =>
              /\ OtherRowsKept
              /\ ColumnsChanged \subseteq
                    (IF probe.error # << >>
                     THEN { "mail_status", "datum_mail", "opmerking" }
                     ELSE { "mail_status", "datum_mail" })
              /\ probe.sheet[i].mail_status = probe.status
              /\ probe.sheet[i].datum_mail # "" <=> probe.status = MAIL_SENT
              /\ probe.error # << >> => probe.sheet[i].opmerking = probe.error
        /\ probe.fn = "set_ai_error" =>
              /\ OtherRowsKept
              /\ ColumnsChanged \subseteq { "ai_status", "opmerking" }
              /\ probe.sheet[i].ai_status = AI_ERROR
        /\ probe.fn = "set_ai_result" =>
              /\ OtherRowsKept
              /\ ColumnsChanged \subseteq { "ai_status", "ai_bericht" }
              /\ probe.sheet[i].ai_bericht = probe.bericht

\* SENT written without an error text on a row with a follow-up date, a
\* reaction and a remark, all three kept
C23_Witness ==
    /\ probe.fn = "set_mail_status"
    /\ probe.row_number = DATA_START_ROW
    /\ probe.status = MAIL_SENT
    /\ probe.error = << >>
    /\ probe.before[1].followup_datum = "11-11-2026"
    /\ probe.before[1].reactie = "Ja"
    /\ probe.before[1].opmerking = << "o", "k" >>
    /\ ColumnsChanged = { "mail_status", "datum_mail" }
    /\ probe.sheet[1].datum_mail # ""

\* C29: every row that step_ai_generate sets to RUNNING is subsequently set
\* to DONE, DRY RUN or ERROR, also when generation raises or the step is
\* interrupted.
C29_RunningIsResolved ==
    \A i \in 1..MaxAiRows :
        (i <= Len(sheet) /\ sheet[i].ai_status = AI_RUNNING)
            ~> (i <= Len(sheet)
                  /\ sheet[i].ai_status \in { AI_DONE, AI_DRY_RUN, AI_ERROR })

\* C24: one call of send_email makes at most max_retries SMTP attempts; it
\* returns a message id after the first attempt that succeeds, the message
\* having been handed to the server at most once; an authentication failure
\* ends the call at once; a connection failure is retried only while
\* attempts remain, and after the last failed attempt the error is raised.
C24_RetryProtocol ==
    probe.fn = "send_email" =>
        /\ probe.attempts <= probe.max_retries
        /\ probe.attempt <= probe.max_retries
        /\ probe.handed <= 1
        /\ probe.at = "returned" => probe.accepted >= 1
        /\ probe.result = "OSError" => probe.attempts = probe.max_retries

\* the two kinds of row cleanup_sheet is about, read from the cells of the
\* sheet as they were before the call
IsDncKind(row) == row.mail_status = MAIL_DNC

IsNoEmailKind(row) == row.enriched = ENRICHED_YES /\ Strip(row.email) = << >>

RowStays(row) == ~IsDncKind(row) /\ ~IsNoEmailKind(row)

DncKindRows == { i \in 1..Len(probe.before) : IsDncKind(probe.before[i]) }

NoEmailKindRows ==
    { i \in 1..Len(probe.before) : IsNoEmailKind(probe.before[i]) }

\* the rows that stay keep their order, and every DNC row is at the end of
\* the archive, in sheet order, behind what the archive held
CleanupRemovesExactly ==
    /\ probe.sheet = SelectSeq(probe.before, RowStays)
    /\ LET moved == get_all_rows(SelectSeq(probe.before, IsDncKind))
           held  == IF probe.archive_before = NoArchive THEN << >>
                    ELSE probe.archive_before
       IN  IF moved = << >> THEN probe.archive = probe.archive_before
           ELSE probe.archive =
                    held \o [k \in 1..Len(moved) |-> ArchiveRow(moved[k])]
    /\ probe.moved_dnc = Cardinality(DncKindRows)

====
